---- MODULE Spec2Model ----
(***************************************************************************)
(* Model of the sistrum SIS protocol session (src/sistrum/_protocol.py),   *)
(* its event-property matchers and value converters (src/sistrum/_event.py),*)
(* the MPS 112 vocabulary (src/sistrum/device_mps112.py) and the error      *)
(* taxonomy (src/sistrum/exceptions.py).                                    *)
(*                                                                          *)
(* A line is a sequence of one-character strings, so that startswith, the   *)
(* notification regular expressions and int() are computed on characters.   *)
(* A Python value that may be None is a sequence of length 0 (None) or 1.   *)
(***************************************************************************)
EXTENDS Integers, Sequences, FiniteSets, TLC

\* ------------------------------------------------------------------------
\* Bounds of the model
\* ------------------------------------------------------------------------
\* lines the device sends in one run
MaxLines == 2
\* make_request calls one caller context makes in one run
MaxCalls == 2
\* registrations the listener registry holds
MaxListeners == 2
\* registrations the registry holds when a client adds and removes, and
\* calls the client makes
MaxRegistry == 3
MaxOps == 4
\* largest integer handed to the int converter
MaxInt == 40
\* property accesses the client makes in one run
MaxAccesses == 3
\* accesses of the client of a slow device
MaxSlowAccesses == 2
\* digits of the code of an error reply
MaxCodeDigits == 2
\* largest group and largest index given to _separate_to_single_input
MaxGroup == 5
MaxIndex == 9
\* bytes a device that never ends a line writes in one run
MaxUnterminated == 3

\* ------------------------------------------------------------------------
\* Python values
\* ------------------------------------------------------------------------
None == << >>
Some(x) == << x >>
IsNone(o) == Len(o) = 0
Val(o) == o[1]

PyInt(n) == << "int", n >>
PyBool(b) == << "bool", b >>
PyEnum(member) == << "enum", member >>
\* a float, held as its number of hundredths
PyFloat(hundredths) == << "float", hundredths >>
PyTuple(a, b) == << "tuple", a, b >>

\* ------------------------------------------------------------------------
\* Characters and strings
\* ------------------------------------------------------------------------
Digits == << "0", "1", "2", "3", "4", "5", "6", "7", "8", "9" >>

IsDigit(c) == \E i \in 1..10 : Digits[i] = c

DigitVal(c) == (CHOOSE i \in 1..10 : Digits[i] = c) - 1

AllDigits(s) == \A i \in 1..Len(s) : IsDigit(s[i])

\* str.startswith(prefix)
StartsWith(s, prefix) ==
    /\ Len(s) >= Len(prefix)
    /\ SubSeq(s, 1, Len(prefix)) = prefix

\* the rest of s after its first n characters
Drop(s, n) == SubSeq(s, n + 1, Len(s))

RECURSIVE NatOf(_)
\* value of a non-empty string of decimal digits
NatOf(s) ==
    IF Len(s) = 0 THEN 0
    ELSE 10 * NatOf(SubSeq(s, 1, Len(s) - 1)) + DigitVal(s[Len(s)])

\* the vertical tab "\x0b", the next-line character "\x85" and the
\* no-break space "\xa0"
VT == ""
NEL == ""
NBSP == " "

\* the characters int() strips from both ends of its argument, of the
\* characters a latin-1 line can hold
Whitespace == {" ", "\t", "\n", "\r", "\f", VT, NEL, NBSP}

\* s.strip(): s without its leading and trailing whitespace
Strip(s) ==
    IF \A i \in 1..Len(s) : s[i] \in Whitespace THEN << >>
    ELSE SubSeq(s, CHOOSE i \in 1..Len(s) :
                       /\ s[i] \notin Whitespace
                       /\ \A j \in 1..(i - 1) : s[j] \in Whitespace,
                   CHOOSE i \in 1..Len(s) :
                       /\ s[i] \notin Whitespace
                       /\ \A j \in (i + 1)..Len(s) : s[j] \in Whitespace)

\* the digits of an integer literal: decimal digits, with single
\* underscores allowed between two digits
DigitsWithUnderscores(s) ==
    /\ Len(s) > 0
    /\ IsDigit(s[1])
    /\ IsDigit(s[Len(s)])
    /\ \A i \in 1..Len(s) : IsDigit(s[i]) \/ s[i] = "_"
    /\ \A i \in 1..(Len(s) - 1) : ~(s[i] = "_" /\ s[i + 1] = "_")

\* an optional sign and the digits of a literal
SignedLiteral(s) ==
    IF Len(s) > 0 /\ s[1] \in {"+", "-"}
    THEN DigitsWithUnderscores(Drop(s, 1))
    ELSE DigitsWithUnderscores(s)

\* whether int(s) accepts s: surrounding whitespace is ignored, then an
\* optional sign and digits, with single underscores between digits
IntAccepts(s) == SignedLiteral(Strip(s))

\* the value of a signed literal
SignedValue(s) ==
    IF s[1] = "-" THEN 0 - NatOf(SelectSeq(s, IsDigit))
    ELSE NatOf(SelectSeq(s, IsDigit))

\* int(s) for a string int() accepts
IntOf(s) == SignedValue(Strip(s))

RECURSIVE NatStr(_)
\* decimal rendering of a natural number
NatStr(n) ==
    IF n < 10 THEN << Digits[n + 1] >>
    ELSE NatStr(n \div 10) \o << Digits[(n % 10) + 1] >>

\* "{0:d}".format(n) for an integer n
FormatD(n) == IF n < 0 THEN << "-" >> \o NatStr(0 - n) ELSE NatStr(n)

\* ------------------------------------------------------------------------
\* Error taxonomy (exceptions.py)
\* ------------------------------------------------------------------------
PyStr(s) == << "str", s >>

\* the SISError subclasses, each with the code its constructor sets
ExceptionClasses ==
    << << 1, "InvalidInputNumberError" >>,
       << 6, "InvalidSwitchAttemptError" >>,
       << 9, "InvalidFunctionNumberError" >>,
       << 10, "InvalidCommandError" >>,
       << 11, "InvalidPresetNumberError" >>,
       << 12, "InvalidPortNumberError" >>,
       << 13, "InvalidParameterError" >>,
       << 14, "InvalidConfigurationError" >>,
       << 17, "InvalidCommandForSignalTypeError" >>,
       << 22, "BusyError" >>,
       << 24, "PrivilegeViolationError" >>,
       << 25, "DeviceNotPresentError" >>,
       << 26, "MaximumNumberOfConnectionsExceededError" >>,
       << 27, "InvalidEventNumberError" >>,
       << 28, "BadFileNameError" >>,
       << 30, "HardwareFailureError" >>,
       << 31, "AttemptToBreakPortPassthroughError" >>,
       << 32, "IncorrectVChipPasswordError" >>,
       << 33, "BadFileTypeForLogoError" >>
    >>

\* the key "E{0}".format(code) of class i in _codes_to_exception_classes
CodeKey(i) == << "E" >> \o FormatD(ExceptionClasses[i][1])

\* a lookup whose generic error does not keep the string it was given
exception_from_error_code_without_code(code) ==
    IF \E i \in 1..Len(ExceptionClasses) : CodeKey(i) = code
    THEN LET i == CHOOSE j \in 1..Len(ExceptionClasses) : CodeKey(j) = code
         IN  [cls |-> ExceptionClasses[i][2], code |-> PyInt(ExceptionClasses[i][1])]
    ELSE [cls |-> "SISError", code |-> PyStr(<< >>)]

\* exception_from_error_code(code): the class registered under the string,
\* else a generic SISError whose code attribute is the string itself
exception_from_error_code(code) ==
    IF \E i \in 1..Len(ExceptionClasses) : CodeKey(i) = code
    THEN LET i == CHOOSE j \in 1..Len(ExceptionClasses) : CodeKey(j) = code
         IN  [cls |-> ExceptionClasses[i][2], code |-> PyInt(ExceptionClasses[i][1])]
    ELSE [cls |-> "SISError", code |-> PyStr(code)]

\* ------------------------------------------------------------------------
\* Value converters (_event.py)
\* ------------------------------------------------------------------------
\* A conversion either yields a value or raises: exc names the exception
\* class ("" when none is raised), val is the value.
Yield(v) == [exc |-> "", val |-> v]
Raise(e) == [exc |-> e, val |-> None]

\* EnumValueConverter(mapping): mapping is the dict in insertion order
EnumValueConverter(mapping) == [kind |-> "enum", mapping |-> mapping]

\* Resolution(...): its text, width and height
Resolution(text, width, height) == << "Resolution", text, width, height >>

_OUTPUT_RESOLUTION ==
    EnumValueConverter(
    << << << "1" >>, Resolution("640x480", 640, 480) >>,
       << << "2" >>, Resolution("800x600", 800, 600) >>,
       << << "3" >>, Resolution("852x480", 852, 480) >>,
       << << "4" >>, Resolution("1024x768", 1024, 768) >>,
       << << "5" >>, Resolution("1024x852", 1024, 852) >>,
       << << "6" >>, Resolution("1024x1024", 1024, 1024) >>,
       << << "7" >>, Resolution("1280x768", 1280, 768) >>,
       << << "8" >>, Resolution("1280x1024", 1280, 1024) >>,
       << << "9" >>, Resolution("1360x765", 1360, 765) >>,
       << << "1", "0" >>, Resolution("1364x768", 1364, 768) >>,
       << << "1", "1" >>, Resolution("1365x1024", 1365, 1024) >>,
       << << "1", "2" >>, Resolution("1366x768", 1366, 768) >>,
       << << "1", "3" >>, Resolution("1400x1050", 1400, 1050) >>,
       << << "1", "4" >>, Resolution("1600x1200", 1600, 1200) >>,
       << << "1", "5" >>, Resolution("480p", 720, 480) >>,
       << << "1", "6" >>, Resolution("576p", 720, 576) >>,
       << << "1", "7" >>, Resolution("720p", 1280, 720) >>,
       << << "1", "8" >>, Resolution("1080i", 1920, 1080) >>,
       << << "1", "9" >>, Resolution("1080p", 1920, 1080) >>,
       << << "2", "0" >>, Resolution("1440x900", 1440, 900) >>,
       << << "2", "1" >>, Resolution("1680x1050", 1680, 1050) >>,
       << << "2", "2" >>, Resolution("1280x800", 1280, 800) >>,
       << << "2", "3" >>, Resolution("1080p Sharp", 1920, 1080) >>,
       << << "2", "4" >>, Resolution("1920x1200", 1920, 1200) >>,
       << << "2", "5" >>, Resolution("1080p CVT", 1920, 1080) >> >>)

_OUTPUT_REFRESH_RATE ==
    EnumValueConverter(
    << << << "1" >>, PyFloat(5000) >>,
       << << "2" >>, PyFloat(6000) >>,
       << << "3" >>, PyFloat(7200) >>,
       << << "4" >>, PyFloat(9600) >>,
       << << "5" >>, PyFloat(10000) >>,
       << << "6" >>, PyFloat(12000) >>,
       << << "7" >>, PyFloat(5994) >> >>)

\* whether dict d, a list of (key, value), has the key
HasKey(d, key) == \E i \in 1..Len(d) : d[i][1] = key

\* d[key] for a key the dict has
Lookup(d, key) == d[CHOOSE i \in 1..Len(d) : d[i][1] = key][2]

\* the number of leading decimal digits of s
LeadingDigits(s) ==
    CHOOSE n \in 0..Len(s) :
        /\ \A i \in 1..n : IsDigit(s[i])
        /\ n < Len(s) => ~IsDigit(s[n + 1])

\* the second group, n2 digits at the head of rest
RateSecondGroup(s, n1, rest, n2) ==
    IF n1 > 0 /\ Len(s) > n1 /\ s[n1 + 1] = "*" /\ n2 > 0
    THEN Some(<< SubSeq(s, 1, n1), SubSeq(rest, 1, n2) >>)
    ELSE None

\* the first group, n1 digits, the asterisk and the rest
RateAfterFirst(s, n1, rest) == RateSecondGroup(s, n1, rest, LeadingDigits(rest))
RateGroups(s, n1) == RateAfterFirst(s, n1, Drop(s, n1 + 1))

\* OutputRateConverter._MATCHER.match(obj) for (\d+)\*(\d+): the two
\* groups, or None
RateMatch(s) == RateGroups(s, LeadingDigits(s))

_INT_VALUE_CONVERTER == [kind |-> "int", mapping |-> << >>]
_BOOL_VALUE_CONVERTER == [kind |-> "bool", mapping |-> << >>]

\* OutputRateConverter()
_OUTPUT_RESOLUTION_AND_REFRESH == [kind |-> "rate", mapping |-> << >>]

\* OutputRateConverter.to_api, the refresh rate: code 3 stands for 75 Hz at
\* 1440x900 and for 24 Hz at 1920x1080
OutputRefresh(resolution, refresh_raw) ==
    IF refresh_raw = 3 /\ resolution[3] = 1440 /\ resolution[4] = 900
    THEN PyFloat(7500)
    ELSE IF refresh_raw = 3 /\ resolution[3] = 1920 /\ resolution[4] = 1080
    THEN PyFloat(2400)
    ELSE Lookup(_OUTPUT_REFRESH_RATE.mapping, NatStr(refresh_raw))

\* the tuple of the resolution looked up and its refresh rate
OutputRateTuple(resolution, refresh_raw) ==
    Yield(PyTuple(resolution, OutputRefresh(resolution, refresh_raw)))

\* OutputRateConverter.to_api for the two codes int(match[1]), int(match[2])
OutputRateCodes(resolution_raw, refresh_raw) ==
    IF ~HasKey(_OUTPUT_RESOLUTION.mapping, NatStr(resolution_raw))
       \/ ~HasKey(_OUTPUT_REFRESH_RATE.mapping, NatStr(refresh_raw))
    THEN Raise("KeyError")
    ELSE OutputRateTuple(Lookup(_OUTPUT_RESOLUTION.mapping, NatStr(resolution_raw)),
                         refresh_raw)

\* OutputRateConverter.to_api, m being _MATCHER.match(obj)
OutputRateMatched(m) ==
    IF IsNone(m) THEN Raise("ValueError")
    ELSE OutputRateCodes(NatOf(Val(m)[1]), NatOf(Val(m)[2]))

\* to_api(obj), obj a string or None (passed as an optional string)
ToApi(conv, obj) ==
    CASE conv.kind = "int" ->
            IF IsNone(obj) THEN Raise("TypeError")
            ELSE IF IntAccepts(Val(obj)) THEN Yield(PyInt(IntOf(Val(obj))))
            ELSE Raise("ValueError")
      [] conv.kind = "bool" ->
            Yield(PyBool(~IsNone(obj) /\ Len(Val(obj)) > 0))
      [] conv.kind = "enum" ->
            IF ~IsNone(obj) /\ \E i \in 1..Len(conv.mapping) : conv.mapping[i][1] = Val(obj)
            THEN LET i == CHOOSE j \in 1..Len(conv.mapping) : conv.mapping[j][1] = Val(obj)
                 IN  Yield(conv.mapping[i][2])
            ELSE Raise("KeyError")
      [] conv.kind = "rate" ->
            IF IsNone(obj) THEN Raise("TypeError")
            ELSE OutputRateMatched(RateMatch(Val(obj)))

\* "{0:d}".format(obj) of BasicValueConverter.to_raw: an int is rendered in
\* decimal and a bool as the int it is; a float, a str and an Enum member
\* know no format code d (ValueError); None, a tuple and a Resolution take
\* no format string at all (TypeError of object.__format__)
BasicToRaw(obj) ==
    CASE obj = None -> Raise("TypeError")
      [] obj # None /\ obj[1] = "int" -> Yield(FormatD(obj[2]))
      [] obj # None /\ obj[1] = "bool" -> Yield(IF obj[2] THEN << "1" >> ELSE << "0" >>)
      [] obj # None /\ obj[1] \in {"float", "str", "enum"} -> Raise("ValueError")
      [] OTHER -> Raise("TypeError")

\* the members of the enumerations of _enums.py, each with its value; the
\* classes are (str, Enum)
_enums ==
    <<
       << "TestPattern.OFF", << "o", "f", "f" >> >>,
       << "TestPattern.ALTERNATING_LINES", << "a", "l", "t", "e", "r", "n", "a", "t", "i", "n", "g", "-", "l", "i", "n", "e", "s" >> >>,
       << "TestPattern.ALTERNATING_PIXELS", << "a", "l", "t", "e", "r", "n", "a", "t", "i", "n", "g", "-", "p", "i", "x", "e", "l", "s" >> >>,
       << "TestPattern.ASPECT_1_33", << "a", "s", "p", "e", "c", "t", "-", "1", ".", "3", "3" >> >>,
       << "TestPattern.ASPECT_1_78", << "a", "s", "p", "e", "c", "t", "-", "1", ".", "7", "8" >> >>,
       << "TestPattern.ASPECT_1_85", << "a", "s", "p", "e", "c", "t", "-", "1", ".", "8", "5" >> >>,
       << "TestPattern.ASPECT_2_35", << "a", "s", "p", "e", "c", "t", "-", "2", ".", "3", "5" >> >>,
       << "TestPattern.COLOR_BARS", << "c", "o", "l", "o", "r", "-", "b", "a", "r", "s" >> >>,
       << "TestPattern.CROP", << "c", "r", "o", "p" >> >>,
       << "TestPattern.CROSSHATCH", << "c", "r", "o", "s", "s", "h", "a", "t", "c", "h" >> >>,
       << "TestPattern.CROSSHATCH_4X4", << "c", "r", "o", "s", "s", "h", "a", "t", "c", "h", "-", "4", "x", "4" >> >>,
       << "TestPattern.GRAYSCALE", << "g", "r", "a", "y", "s", "c", "a", "l", "e" >> >>,
       << "TestPattern.GRAYSCALE_RAMP", << "g", "r", "a", "y", "s", "c", "a", "l", "e", "-", "r", "a", "m", "p" >> >>,
       << "TestPattern.WHITE_FIELD", << "w", "h", "i", "t", "e", "-", "f", "i", "e", "l", "d" >> >>,
       << "InputStandard.NONE", << "n", "o", "n", "e" >> >>,
       << "InputStandard.NTSC_3_58", << "n", "t", "s", "c", "-", "3", ".", "5", "8" >> >>,
       << "InputStandard.PAL", << "p", "a", "l" >> >>,
       << "InputStandard.NTSC_4_43", << "n", "t", "s", "c", "-", "4", ".", "4", "3" >> >>,
       << "InputStandard.SECAM", << "s", "e", "c", "a", "m" >> >>,
       << "InputStandard.OTHER", << "o", "t", "h", "e", "r" >> >>,
       << "InputVideoFormat.NONE", << "n", "o", "n", "e" >> >>,
       << "InputVideoFormat.CVBS", << "c", "v", "b", "s" >> >>,
       << "InputVideoFormat.SVIDEO", << "s", "v", "i", "d", "e", "o" >> >>,
       << "InputVideoFormat.RGBCVS", << "r", "g", "b", "c", "v", "s" >> >>,
       << "InputVideoFormat.RGBS", << "r", "g", "b", "s" >> >>,
       << "InputVideoFormat.RGBHV", << "r", "g", "b", "h", "v" >> >>,
       << "InputVideoFormat.RGSB", << "r", "g", "s", "b" >> >>,
       << "InputVideoFormat.RGB_SCALED", << "r", "g", "b", "-", "s", "c", "a", "l", "e", "d" >> >>,
       << "InputVideoFormat.RGB_PASSTHROUGH", << "r", "g", "b", "-", "p", "a", "s", "s", "t", "h", "r", "o", "u", "g", "h" >> >>,
       << "InputVideoFormat.YUV_I", << "y", "u", "v", "-", "i" >> >>,
       << "InputVideoFormat.YUV_P", << "y", "u", "v", "-", "p" >> >>,
       << "InputVideoFormat.YUV_AUTO", << "y", "u", "v", "-", "a", "u", "t", "o" >> >>,
       << "InputVideoFormat.SDI", << "s", "d", "i" >> >>,
       << "InputVideoFormat.DVI", << "d", "v", "i" >> >>,
       << "InputVideoFormat.HDMI", << "h", "d", "m", "i" >> >>,
       << "SyncFormat.RGBHV", << "r", "g", "b", "h", "v" >> >>,
       << "SyncFormat.RGBS", << "r", "g", "b", "s" >> >>,
       << "SyncFormat.RGSB", << "r", "g", "s", "b" >> >>,
       << "SyncFormat.YUV_BILEVEL", << "y", "u", "v", "-", "b", "i", "l", "e", "v", "e", "l" >> >>,
       << "SyncFormat.YUV_TRILEVEL", << "y", "u", "v", "-", "t", "r", "i", "l", "e", "v", "e", "l" >> >>,
       << "AspectMode.FOLLOW", << "f", "o", "l", "l", "o", "w" >> >>,
       << "AspectMode.FILL", << "f", "i", "l", "l" >> >>,
       << "SyncPolarity.NEGATIVE", << "n", "e", "g", "a", "t", "i", "v", "e" >> >>,
       << "SyncPolarity.POSITIVE", << "p", "o", "s", "i", "t", "i", "v", "e" >> >>,
       << "ExecutiveMode.UNLOCKED", << "u", "n", "l", "o", "c", "k", "e", "d" >> >>,
       << "ExecutiveMode.LIMITED", << "l", "i", "m", "i", "t", "e", "d" >> >>,
       << "ExecutiveMode.COMPLETE", << "c", "o", "m", "p", "l", "e", "t", "e" >> >>,
       << "SwitcherMode.SINGLE", << "s", "i", "n", "g", "l", "e" >> >>,
       << "SwitcherMode.SEPARATE", << "s", "e", "p", "a", "r", "a", "t", "e" >> >> >>

\* the string a member of an enumeration or a str is when compared
StrOf(obj) ==
    IF obj[1] = "str" THEN obj[2]
    ELSE IF HasKey(_enums, obj[2]) THEN Lookup(_enums, obj[2])
    ELSE << obj[2] >>

\* an int, a bool or a float
IsNumber(obj) == obj # None /\ obj[1] \in {"int", "bool", "float"}

\* the hundredths of a number
Hundredths(obj) ==
    CASE obj[1] = "float" -> obj[2]
      [] obj[1] = "int" -> 100 * obj[2]
      [] obj[1] = "bool" -> IF obj[2] THEN 100 ELSE 0

\* val == obj raises: Resolution.__eq__ reads other._attrtuple() and is
\* called, directly or reflected, when either side is a Resolution
EqualsRaises(val, obj) ==
    (val[1] = "Resolution") # (obj # None /\ obj[1] = "Resolution")

\* val == obj for val a value of a converter table: members of (str, Enum)
\* classes compare as the strings they are, floats compare with every
\* number by value, Resolutions by their attributes
PyEquals(val, obj) ==
    /\ obj # None
    /\ CASE val[1] = "enum" ->
                obj[1] \in {"enum", "str"} /\ StrOf(val) = StrOf(obj)
          [] val[1] = "float" -> IsNumber(obj) /\ Hundredths(obj) = val[2]
          [] OTHER -> val = obj

\* EnumValueConverter.to_raw(obj): the key of the first entry whose value
\* equals obj, else ValueError; the comparison itself raises
\* AttributeError between a Resolution and anything else
EnumToRaw(conv, obj) ==
    IF Len(conv.mapping) > 0 /\ EqualsRaises(conv.mapping[1][2], obj)
    THEN Raise("AttributeError")
    ELSE IF \E i \in 1..Len(conv.mapping) : PyEquals(conv.mapping[i][2], obj)
    THEN LET i == CHOOSE j \in 1..Len(conv.mapping) :
                      /\ PyEquals(conv.mapping[j][2], obj)
                      /\ \A k \in 1..(j - 1) : ~PyEquals(conv.mapping[k][2], obj)
         IN  Yield(conv.mapping[i][1])
    ELSE Raise("ValueError")

\* a format that does not pad its number
FormatUnpadded(n) == NatStr(n)

\* "{0:02d}".format(n) for n >= 0: at least two digits, zero-padded
Format02d(n) == IF n < 10 THEN << "0" >> \o NatStr(n) ELSE NatStr(n)

\* a refresh code taken from the table alone
OutputRefreshFromTable(resolution, refresh) ==
    EnumToRaw(_OUTPUT_REFRESH_RATE, refresh)

\* OutputRateConverter.to_raw, lines 120-129: the refresh code; 75 Hz at
\* 1440x900 and 24 Hz at 1920x1080 have code 3, every other rate the code
\* of the table
OutputRefreshRaw(resolution, refresh) ==
    IF /\ \/ resolution[3] = 1440 /\ resolution[4] = 900
          \/ resolution[3] = 1920 /\ resolution[4] = 1080
       /\ ~IsNumber(refresh)
    THEN Raise("TypeError")
    ELSE IF resolution[3] = 1440 /\ resolution[4] = 900 /\ Hundredths(refresh) = 7500
    THEN Yield(<< "3" >>)
    ELSE IF resolution[3] = 1920 /\ resolution[4] = 1080 /\ Hundredths(refresh) = 2400
    THEN Yield(<< "3" >>)
    ELSE EnumToRaw(_OUTPUT_REFRESH_RATE, refresh)

\* except ValueError: raise InvalidParameterError; any other exception of
\* a lookup passes
Reraised(raw) ==
    IF raw.exc = "ValueError" THEN Raise("InvalidParameterError") ELSE raw

\* OutputRateConverter.to_raw, the two lookups done: the exception of the
\* first lookup that raised, else the codes are formatted
OutputRateRaw(resolution_raw, refresh_raw) ==
    IF resolution_raw.exc # "" THEN Reraised(resolution_raw)
    ELSE IF refresh_raw.exc # "" THEN Reraised(refresh_raw)
    ELSE Yield(Format02d(NatOf(resolution_raw.val)) \o << "*" >>
               \o Format02d(NatOf(refresh_raw.val)))

\* OutputRateConverter.to_raw(obj): (resolution, refresh) = obj unpacks a
\* tuple of two; None, a number and a Resolution are not iterable
\* (TypeError), a string is unpacked into its characters
OutputRateToRaw(obj) ==
    IF obj = None \/ obj[1] \in {"int", "bool", "float", "Resolution"}
    THEN Raise("TypeError")
    ELSE IF obj[1] \in {"str", "enum"}
    THEN IF Len(StrOf(obj)) = 2 THEN Raise("AttributeError") ELSE Raise("ValueError")
    ELSE OutputRateRaw(EnumToRaw(_OUTPUT_RESOLUTION, obj[2]),
                       OutputRefreshRaw(obj[2], obj[3]))

\* to_raw(obj) of the int, bool, enumerated-table and output-rate
\* converters
ToRaw(conv, obj) ==
    CASE conv.kind \in {"int", "bool"} -> BasicToRaw(obj)
      [] conv.kind = "enum" -> EnumToRaw(conv, obj)
      [] conv.kind = "rate" -> OutputRateToRaw(obj)

_EXECUTIVE_MODE ==
    EnumValueConverter(<< << << "0" >>, PyEnum("ExecutiveMode.UNLOCKED") >>,
                          << << "1" >>, PyEnum("ExecutiveMode.LIMITED") >>,
                          << << "2" >>, PyEnum("ExecutiveMode.COMPLETE") >> >>)

_SWITCHER_MODE ==
    EnumValueConverter(<< << << "1" >>, PyEnum("SwitcherMode.SINGLE") >>,
                          << << "2" >>, PyEnum("SwitcherMode.SEPARATE") >> >>)

_INPUT_VIDEO_FORMAT ==
    EnumValueConverter(<< << << "1" >>, PyEnum("InputVideoFormat.CVBS") >>,
                          << << "2" >>, PyEnum("InputVideoFormat.SVIDEO") >>,
                          << << "3" >>, PyEnum("InputVideoFormat.RGBCVS") >>,
                          << << "4" >>, PyEnum("InputVideoFormat.YUV_I") >>,
                          << << "5" >>, PyEnum("InputVideoFormat.YUV_P") >>,
                          << << "6" >>, PyEnum("InputVideoFormat.RGB_SCALED") >>,
                          << << "7" >>, PyEnum("InputVideoFormat.RGB_PASSTHROUGH") >>,
                          << << "8" >>, PyEnum("InputVideoFormat.YUV_AUTO") >>,
                          << << "9" >>, PyEnum("InputVideoFormat.SDI") >> >>)

_INPUT_STANDARD ==
    EnumValueConverter(<< << << "0" >>, PyEnum("InputStandard.NONE") >>,
                          << << "1" >>, PyEnum("InputStandard.NTSC_3_58") >>,
                          << << "2" >>, PyEnum("InputStandard.PAL") >>,
                          << << "3" >>, PyEnum("InputStandard.NTSC_4_43") >>,
                          << << "4" >>, PyEnum("InputStandard.SECAM") >>,
                          << << "-" >>, PyEnum("InputStandard.OTHER") >> >>)

_TEST_PATTERN ==
    EnumValueConverter(<< << << "0" >>, PyEnum("TestPattern.OFF") >>,
                          << << "1" >>, PyEnum("TestPattern.CROP") >>,
                          << << "2" >>, PyEnum("TestPattern.ALTERNATING_PIXELS") >>,
                          << << "3" >>, PyEnum("TestPattern.COLOR_BARS") >> >>)

\* ------------------------------------------------------------------------
\* Notification patterns (set_cmd_response, matched with re.match)
\* ------------------------------------------------------------------------
\* A match is None or the list of the pattern's groups, each a string or
\* None (a group that took no part in the match).
\* ^<lit>(\d+)$
ReLitDigits(lit) == [form |-> "lit_digits", lit |-> lit]
\* ^<lit>([+\-]\d+)$
ReLitSignedDigits(lit) == [form |-> "lit_signed", lit |-> lit]
\* ^(\d+)*^(\d+)$ : the starred group can only match zero times, because
\* the second ^ must stand at position 0
ReStarredDigitsDigits == [form |-> "star_digits", lit |-> << >>]

\* ^<lit>(\d)<suffix>$
ReLitDigitLit(lit, suffix) == [form |-> "lit_digit_lit", lit |-> lit, suffix |-> suffix]
\* ^(\d)<lit>(\d)$
ReDigitLitDigit(lit) == [form |-> "digit_lit_digit", lit |-> lit]
\* ^<lit>$
ReLit(lit) == [form |-> "lit", lit |-> lit]
\* ^<lit>(\d+\*\d+)$
ReLitRate(lit) == [form |-> "lit_rate", lit |-> lit]

\* where a pattern's $ can stand: at the end of the line, or just before a
\* newline that ends it. The line up to that place
BeforeDollar(line) ==
    IF Len(line) > 0 /\ line[Len(line)] = "\n"
    THEN SubSeq(line, 1, Len(line) - 1)
    ELSE line

\* (\d+\*\d+)$ on the rest of the line, whose first n1 characters are
\* digits
ReRateDigits(rest, n1) ==
    IF /\ n1 > 0
       /\ Len(BeforeDollar(rest)) > n1 + 1
       /\ rest[n1 + 1] = "*"
       /\ AllDigits(Drop(BeforeDollar(rest), n1 + 1))
    THEN Some(<< Some(BeforeDollar(rest)) >>)
    ELSE None

ReRateGroup(rest) == ReRateDigits(rest, LeadingDigits(rest))

\* the match of a pattern other than that of output_rate, its $ standing
\* at the end of line
ReMatchToEnd(re, line) ==
    CASE re.form = "lit_digits" ->
            IF /\ StartsWith(line, re.lit)
               /\ Len(line) > Len(re.lit)
               /\ AllDigits(Drop(line, Len(re.lit)))
            THEN Some(<< Some(Drop(line, Len(re.lit))) >>)
            ELSE None
      [] re.form = "lit_signed" ->
            IF /\ StartsWith(line, re.lit)
               /\ Len(line) > Len(re.lit) + 1
               /\ line[Len(re.lit) + 1] \in {"+", "-"}
               /\ AllDigits(Drop(line, Len(re.lit) + 1))
            THEN Some(<< Some(Drop(line, Len(re.lit))) >>)
            ELSE None
      [] re.form = "star_digits" ->
            IF Len(line) > 0 /\ AllDigits(line)
            THEN Some(<< None, Some(line) >>)
            ELSE None
      [] re.form = "lit_digit_lit" ->
            IF /\ Len(line) = Len(re.lit) + 1 + Len(re.suffix)
               /\ StartsWith(line, re.lit)
               /\ IsDigit(line[Len(re.lit) + 1])
               /\ Drop(line, Len(re.lit) + 1) = re.suffix
            THEN Some(<< Some(<< line[Len(re.lit) + 1] >>) >>)
            ELSE None
      [] re.form = "digit_lit_digit" ->
            IF /\ Len(line) = Len(re.lit) + 2
               /\ IsDigit(line[1])
               /\ SubSeq(line, 2, Len(line) - 1) = re.lit
               /\ IsDigit(line[Len(line)])
            THEN Some(<< Some(<< line[1] >>), Some(<< line[Len(line)] >>) >>)
            ELSE None
      [] re.form = "lit" ->
            IF line = re.lit THEN Some(<< >>) ELSE None

\* set_cmd_response_re.match(line): every pattern ends in $, which matches
\* at the end of the line and before one newline that ends the line
\* (ReRateGroup places the $ of the output_rate pattern itself)
ReMatch(re, line) ==
    IF re.form = "lit_rate"
    THEN IF StartsWith(line, re.lit)
         THEN ReRateGroup(Drop(line, Len(re.lit)))
         ELSE None
    ELSE ReMatchToEnd(re, BeforeDollar(line))

\* ------------------------------------------------------------------------
\* Events and matchers (_event.py)
\* ------------------------------------------------------------------------
\* Event(name, source)
Event(name, source) ==
    [cls |-> "Event", name |-> name, source |-> source,
     value |-> None, index |-> None]

\* ValueChangeEvent(name, source, value)
ValueChangeEvent(name, source, value) ==
    [cls |-> "ValueChangeEvent", name |-> name, source |-> source,
     value |-> Some(value), index |-> None]

\* IndexValueChangeEvent(name, source, value, index)
IndexValueChangeEvent(name, source, value, index) ==
    [cls |-> "IndexValueChangeEvent", name |-> name, source |-> source,
     value |-> Some(value), index |-> Some(index)]

\* A matcher returns an Event or None, or raises.
Matched(ev) == [exc |-> "", ev |-> Some(ev)]
NoMatch == [exc |-> "", ev |-> None]
MatcherRaise(e) == [exc |-> e, ev |-> None]

\* a matcher that builds a value event out of the matched line
_make_event_matcher_with_value(re, line) ==
    IF IsNone(ReMatch(re, line)) THEN NoMatch
    ELSE Matched(ValueChangeEvent(None, None, PyStr(line)))

\* _make_event_matcher(set_cmd_response_re)
_make_event_matcher(re, line) ==
    IF IsNone(ReMatch(re, line)) THEN NoMatch
    ELSE Matched(Event(None, None))

\* a matcher that passes the captured text on without converting it
_make_valuechangeevent_matcher_unconverted(conv, re, line) ==
    LET m == ReMatch(re, line) IN
    IF IsNone(m) THEN NoMatch
    ELSE Matched(ValueChangeEvent(None, None, PyStr(Val(Val(m)[1]))))

\* ValueChangeEvent(None, None, type_converter.to_api(match[1])), v being
\* what to_api yields or raises
ValueChangeConverted(v) ==
    IF v.exc # "" THEN MatcherRaise(v.exc)
    ELSE Matched(ValueChangeEvent(None, None, v.val))

\* the body of the matcher, m being set_cmd_response_re.match(line)
ValueChangeMatch(conv, m) ==
    IF IsNone(m) THEN NoMatch
    ELSE ValueChangeConverted(ToApi(conv, Val(m)[1]))

\* _make_valuechangeevent_matcher(type_converter, set_cmd_response_re)
_make_valuechangeevent_matcher(conv, re, line) ==
    ValueChangeMatch(conv, ReMatch(re, line))

\* IndexValueChangeEvent(None, None, int(match[1]), to_api(match[2])), g1
\* being match[1] and v what to_api yields or raises
IndexValueChangeConverted(g1, v) ==
    IF v.exc # "" THEN MatcherRaise(v.exc)
    ELSE Matched(IndexValueChangeEvent(None, None, PyInt(IntOf(Val(g1))), v.val))

\* the arguments of the event, evaluated left to right: int(match[1]), then
\* type_converter.to_api(match[2])
IndexValueChangeGroups(conv, g1, g2) ==
    IF IsNone(g1) THEN MatcherRaise("TypeError")
    ELSE IF ~IntAccepts(Val(g1)) THEN MatcherRaise("ValueError")
    ELSE IndexValueChangeConverted(g1, ToApi(conv, g2))

\* the body of the matcher, m being set_cmd_response_re.match(line)
IndexValueChangeMatch(conv, m) ==
    IF IsNone(m) THEN NoMatch
    ELSE IndexValueChangeGroups(conv, Val(m)[1], Val(m)[2])

\* _make_indexvaluechangeevent_matcher(type_converter, set_cmd_response_re):
\* int(match[1]) is passed in the value position and to_api(match[2]) in
\* the index position
_make_indexvaluechangeevent_matcher(conv, re, line) ==
    IndexValueChangeMatch(conv, ReMatch(re, line))

\* generic_event_property(...): the matcher of a declaration. type_ is a
\* converter or None, indexed tells whether indices were given.
Declaration(type_, indexed, re) == [type_ |-> type_, indexed |-> indexed, re |-> re]

\* prop.fmatch(self, line) for the property built from declaration prop
fmatch(prop, line) ==
    IF IsNone(prop.type_) THEN _make_event_matcher(prop.re, line)
    ELSE IF prop.indexed
         THEN _make_indexvaluechangeevent_matcher(Val(prop.type_), prop.re, line)
         ELSE _make_valuechangeevent_matcher(Val(prop.type_), prop.re, line)

\* if set_cmd_response: (line 329) binds set_cmd_response_re; None and the
\* empty string leave it unbound
Bound(set_cmd_response) ==
    ~IsNone(set_cmd_response) /\ Val(set_cmd_response) # << >>

\* _make_doconly_getter(doc): a dummy getter in a documentation build
_make_doconly_getter(sphinx_build) ==
    IF sphinx_build THEN Some("fake_fget") ELSE None

\* _make_getter, _make_setter, _make_getitemmer, _make_setitemmer: None
\* without a command template, else the generated function
Made(maker, cmd) == IF IsNone(cmd) THEN None ELSE Some(maker)

\* generic_event_property(doc, type_, indices, get_cmd, set_cmd,
\* set_cmd_response, fget, fset, fmatch) for the declaration d: the
\* exception it raises, or the functions of the EventProperty it returns,
\* each None, "custom" (the function passed in) or the name of the maker
\* of the generated function
generic_event_property(d) ==
    IF ~IsNone(d.get_cmd) /\ ~IsNone(d.fget) THEN Raise("ValueError")
    ELSE IF ~IsNone(d.set_cmd) /\ ~IsNone(d.fset) /\ IsNone(d.indices)
    THEN Raise("ValueError")
    ELSE IF IsNone(d.type_)
    THEN IF ~IsNone(d.get_cmd) \/ ~IsNone(d.set_cmd) THEN Raise("ValueError")
         ELSE IF IsNone(d.fmatch) /\ ~Bound(d.set_cmd_response)
         THEN Raise("UnboundLocalError")
         ELSE Yield([fget |-> _make_doconly_getter(d.sphinx_build),
                     fset |-> d.fset,
                     fmatch |-> IF IsNone(d.fmatch)
                                THEN Some("_make_event_matcher") ELSE d.fmatch])
    ELSE IF ~IsNone(d.indices)
    THEN IF IsNone(d.fget) /\ IsNone(Made("_make_getitemmer", d.get_cmd))
         THEN Raise("AttributeError")
         ELSE IF IsNone(d.fmatch) /\ ~Bound(d.set_cmd_response)
         THEN Raise("UnboundLocalError")
         ELSE Yield([fget |-> IF IsNone(d.fget)
                              THEN Some("_make_indexed_getter") ELSE d.fget,
                     fset |-> d.fset,
                     fmatch |-> IF IsNone(d.fmatch)
                                THEN Some("_make_indexvaluechangeevent_matcher")
                                ELSE d.fmatch])
    ELSE IF IsNone(d.fmatch) /\ ~Bound(d.set_cmd_response)
         THEN Raise("UnboundLocalError")
         ELSE Yield([fget |-> IF IsNone(d.fget)
                              THEN Made("_make_getter", d.get_cmd) ELSE d.fget,
                     fset |-> IF IsNone(d.fset)
                              THEN Made("_make_setter", d.set_cmd) ELSE d.fset,
                     fmatch |-> IF IsNone(d.fmatch)
                                THEN Some("_make_valuechangeevent_matcher")
                                ELSE d.fmatch])

\* ------------------------------------------------------------------------
\* The MPS 112 vocabulary (device_mps112.py)
\* ------------------------------------------------------------------------
\* inspect.getmembers(ExtronMPS112Protocol, EventProperty): the event
\* properties of the class as (name, declaration), sorted by name
_event_members_ExtronMPS112Protocol ==
    << << "executive_mode",
          Declaration(Some(_EXECUTIVE_MODE), FALSE, ReLitDigits(<< "E", "x", "e" >>)) >>,
       << "input",
          Declaration(Some(_INT_VALUE_CONVERTER), TRUE, ReStarredDigitsDigits) >>,
       << "mic_mute",
          Declaration(Some(_BOOL_VALUE_CONVERTER), FALSE, ReLitDigits(<< "M", "i", "x" >>)) >>,
       << "mic_threshold",
          Declaration(Some(_INT_VALUE_CONVERTER), FALSE, ReLitDigits(<< "T", "h", "r" >>)) >>,
       << "mic_volume",
          Declaration(Some(_INT_VALUE_CONVERTER), FALSE, ReLitSignedDigits(<< "A", "u", "d" >>)) >>,
       << "mute",
          Declaration(Some(_INT_VALUE_CONVERTER), FALSE, ReLitDigits(<< "A", "m", "t" >>)) >>,
       << "switcher_mode",
          Declaration(Some(_SWITCHER_MODE), FALSE, ReLitDigits(<< "M", "o", "d" >>)) >>,
       << "volume",
          Declaration(Some(_INT_VALUE_CONVERTER), FALSE, ReLitDigits(<< "V", "o", "l" >>)) >>
    >>

\* ------------------------------------------------------------------------
\* The DVS 304 vocabulary (device_dvs304.py)
\* ------------------------------------------------------------------------
\* inspect.getmembers(ExtronDVS304Protocol, EventProperty)
_event_members_ExtronDVS304Protocol ==
    << << "active_lines",
          Declaration(Some(_INT_VALUE_CONVERTER), FALSE, ReLitDigits(<< "A", "l", "n" >>)) >>,
       << "active_pixels",
          Declaration(Some(_INT_VALUE_CONVERTER), FALSE, ReLitDigits(<< "A", "p", "x" >>)) >>,
       << "audio_input",
          Declaration(Some(_INT_VALUE_CONVERTER), FALSE, ReLitDigitLit(<< "I", "n" >>, << " ", "A", "u", "d" >>)) >>,
       << "auto_image",
          Declaration(Some(_INT_VALUE_CONVERTER), FALSE, ReLitDigits(<< "I", "m", "g" >>)) >>,
       << "auto_switch",
          Declaration(Some(_BOOL_VALUE_CONVERTER), FALSE, ReLitDigits(<< "A", "s", "w" >>)) >>,
       << "blue_screen",
          Declaration(Some(_BOOL_VALUE_CONVERTER), FALSE, ReLitDigits(<< "B", "l", "u" >>)) >>,
       << "brightness",
          Declaration(Some(_INT_VALUE_CONVERTER), FALSE, ReLitDigits(<< "B", "r", "t" >>)) >>,
       << "color",
          Declaration(Some(_INT_VALUE_CONVERTER), FALSE, ReLitDigits(<< "C", "o", "l" >>)) >>,
       << "contrast",
          Declaration(Some(_INT_VALUE_CONVERTER), FALSE, ReLitDigits(<< "C", "o", "n" >>)) >>,
       << "detail_filter",
          Declaration(Some(_INT_VALUE_CONVERTER), FALSE, ReLitDigits(<< "S", "h", "p" >>)) >>,
       << "film_mode",
          Declaration(Some(_BOOL_VALUE_CONVERTER), FALSE, ReLitDigits(<< "F", "l", "m" >>)) >>,
       << "freeze",
          Declaration(Some(_BOOL_VALUE_CONVERTER), FALSE, ReLitDigits(<< "F", "r", "z" >>)) >>,
       << "horiz_shift",
          Declaration(Some(_INT_VALUE_CONVERTER), FALSE, ReLitDigits(<< "H", "p", "h" >>)) >>,
       << "horiz_size",
          Declaration(Some(_INT_VALUE_CONVERTER), FALSE, ReLitDigits(<< "H", "s", "z" >>)) >>,
       << "horiz_start",
          Declaration(Some(_INT_VALUE_CONVERTER), FALSE, ReLitDigitLit(<< "H", "s", "t" >>, << >>)) >>,
       << "input",
          Declaration(Some(_INT_VALUE_CONVERTER), FALSE, ReLitDigitLit(<< "I", "n" >>, << " ", "A", "l", "l" >>)) >>,
       << "output_rate",
          Declaration(Some(_OUTPUT_RESOLUTION_AND_REFRESH), FALSE, ReLitRate(<< "R", "t", "e" >>)) >>,
       << "pixel_phase",
          Declaration(Some(_INT_VALUE_CONVERTER), FALSE, ReLitDigits(<< "P", "h", "s" >>)) >>,
       << "reconfig",
          Declaration(None, FALSE, ReLit(<< "R", "e", "c", "o", "n", "f", "i", "g" >>)) >>,
       << "test_pattern",
          Declaration(Some(_TEST_PATTERN), FALSE, ReLitDigits(<< "T", "s", "t" >>)) >>,
       << "tint",
          Declaration(Some(_INT_VALUE_CONVERTER), FALSE, ReLitDigits(<< "T", "i", "n" >>)) >>,
       << "total_pixels",
          Declaration(Some(_INT_VALUE_CONVERTER), FALSE, ReLitDigits(<< "T", "p", "x" >>)) >>,
       << "vert_shift",
          Declaration(Some(_INT_VALUE_CONVERTER), FALSE, ReLitDigits(<< "V", "p", "h" >>)) >>,
       << "vert_size",
          Declaration(Some(_INT_VALUE_CONVERTER), FALSE, ReLitDigits(<< "V", "s", "z" >>)) >>,
       << "vert_start",
          Declaration(Some(_INT_VALUE_CONVERTER), FALSE, ReLitDigitLit(<< "V", "s", "t" >>, << >>)) >>,
       << "video_input",
          Declaration(Some(_INT_VALUE_CONVERTER), FALSE, ReLitDigitLit(<< "I", "n" >>, << " ", "R", "G", "B" >>)) >>,
       << "video_input_format",
          Declaration(Some(_INPUT_VIDEO_FORMAT), TRUE, ReDigitLitDigit(<< "T", "y", "p" >>)) >>,
       << "video_mute",
          Declaration(Some(_BOOL_VALUE_CONVERTER), FALSE, ReLitDigits(<< "V", "m", "t" >>)) >>,
       << "zoom",
          Declaration(Some(_INT_VALUE_CONVERTER), FALSE, ReLitDigits(<< "Z", "o", "m" >>)) >>
    >>

\* inspect.getmembers of a session class written against the library, a
\* subclass of ExtronProtocol that declares gain and volume with the same
\* notification pattern ^Vol(\d+)$ and mic_mute with ^Mix(\d+)$
_event_members_OverlappingProtocol ==
    << << "gain",
          Declaration(Some(_INT_VALUE_CONVERTER), FALSE, ReLitDigits(<< "V", "o", "l" >>)) >>,
       << "mic_mute",
          Declaration(Some(_BOOL_VALUE_CONVERTER), FALSE, ReLitDigits(<< "M", "i", "x" >>)) >>,
       << "volume",
          Declaration(Some(_INT_VALUE_CONVERTER), FALSE, ReLitDigits(<< "V", "o", "l" >>)) >>
    >>

\* inspect.getmembers(cls, EventProperty) for a session class; the base
\* class ExtronProtocol declares no event property
EventMembersOf(cls) ==
    CASE cls = "ExtronMPS112Protocol" -> _event_members_ExtronMPS112Protocol
      [] cls = "ExtronDVS304Protocol" -> _event_members_ExtronDVS304Protocol
      [] cls = "OverlappingProtocol" -> _event_members_OverlappingProtocol
      [] OTHER -> << >>

\* ------------------------------------------------------------------------
\* Part numbers and session classes (_part_numbers.py, _auto_protocol.py)
\* ------------------------------------------------------------------------
\* PartNumber.EXTRON_DVS_304 = "60-736-01"
EXTRON_DVS_304 == << "6", "0", "-", "7", "3", "6", "-", "0", "1" >>
\* PartNumber.EXTRON_DVS_304_A = "60-736-02"
EXTRON_DVS_304_A == << "6", "0", "-", "7", "3", "6", "-", "0", "2" >>
\* PartNumber.EXTRON_DVS_304_D = "60-736-03"
EXTRON_DVS_304_D == << "6", "0", "-", "7", "3", "6", "-", "0", "3" >>
\* PartNumber.EXTRON_DVS_304_AD = "60-736-04"
EXTRON_DVS_304_AD == << "6", "0", "-", "7", "3", "6", "-", "0", "4" >>
\* PartNumber.EXTRON_DVS_304_DVI = "60-1027-01"
EXTRON_DVS_304_DVI == << "6", "0", "-", "1", "0", "2", "7", "-", "0", "1" >>
\* PartNumber.EXTRON_DVS_304_DVI_A = "60-1027-02"
EXTRON_DVS_304_DVI_A == << "6", "0", "-", "1", "0", "2", "7", "-", "0", "2" >>
\* PartNumber.EXTRON_DVS_304_DVI_D = "60-1027-03"
EXTRON_DVS_304_DVI_D == << "6", "0", "-", "1", "0", "2", "7", "-", "0", "3" >>
\* PartNumber.EXTRON_DVS_304_DVI_AD = "60-1027-04"
EXTRON_DVS_304_DVI_AD == << "6", "0", "-", "1", "0", "2", "7", "-", "0", "4" >>
\* PartNumber.EXTRON_MPS_112 = "60-532-01"
EXTRON_MPS_112 == << "6", "0", "-", "5", "3", "2", "-", "0", "1" >>
\* PartNumber.EXTRON_MPS_112CS = "60-532-02"
EXTRON_MPS_112CS == << "6", "0", "-", "5", "3", "2", "-", "0", "2" >>

\* _PROTOCOL_INDEX: the dict of part number to session class, in
\* insertion order
_PROTOCOL_INDEX ==
    << << EXTRON_DVS_304, "ExtronDVS304Protocol" >>,
       << EXTRON_DVS_304_A, "ExtronDVS304Protocol" >>,
       << EXTRON_DVS_304_D, "ExtronDVS304Protocol" >>,
       << EXTRON_DVS_304_AD, "ExtronDVS304Protocol" >>,
       << EXTRON_DVS_304_DVI, "ExtronDVS304Protocol" >>,
       << EXTRON_DVS_304_DVI_A, "ExtronDVS304Protocol" >>,
       << EXTRON_DVS_304_DVI_D, "ExtronDVS304Protocol" >>,
       << EXTRON_DVS_304_DVI_AD, "ExtronDVS304Protocol" >>,
       << EXTRON_MPS_112, "ExtronMPS112Protocol" >>,
       << EXTRON_MPS_112CS, "ExtronMPS112Protocol" >> >>

\* a lookup that has no class for a part number the table lacks
get_protocol_class_without_fallback(part) ==
    IF HasKey(_PROTOCOL_INDEX, part) THEN Lookup(_PROTOCOL_INDEX, part) ELSE ""

\* get_protocol_class_for_part_number(part)
get_protocol_class_for_part_number(part) ==
    IF HasKey(_PROTOCOL_INDEX, part) THEN Lookup(_PROTOCOL_INDEX, part)
    ELSE "ExtronProtocol"

\* part numbers no device family is registered for
UnknownPart == << "6", "0", "-", "9", "9", "9", "-", "0", "1" >>
EmptyPart == << >>

\* the part numbers of the devices behind the serial port, and the part
\* numbers callers pass to ExtronDevice
PartNumbers ==
    {_PROTOCOL_INDEX[i][1] : i \in 1..Len(_PROTOCOL_INDEX)} \cup {UnknownPart, EmptyPart}

\* ------------------------------------------------------------------------
\* Inputs of the model
\* ------------------------------------------------------------------------
\* the caller contexts
Callers == {1, 2}

\* the commands callers pass to make_request
Requests == { << "V" >>, << "4", "0", "V" >> }

\* the lines the device sends, as replies or unsolicited
Vol40 == << "V", "o", "l", "4", "0" >>
Vol7 == << "V", "o", "l", "7" >>
Mix0 == << "M", "i", "x", "0" >>
Exe1 == << "E", "x", "e", "1" >>
Exe7 == << "E", "x", "e", "7" >>
E13 == << "E", "1", "3" >>
E1 == << "E", "1" >>
E99 == << "E", "9", "9" >>
Zpx == << "Z", "p", "x" >>

DeviceLines == {Vol40, E13}

\* lines a DVS 304 sends unsolicited
Reconfig == << "R", "e", "c", "o", "n", "f", "i", "g" >>
Typ23 == << "2", "T", "y", "p", "3" >>
Frz0 == << "F", "r", "z", "0" >>
Tst7 == << "T", "s", "t", "7" >>

DvsEventLines == {Reconfig, Typ23, Frz0, Tst7, Zpx}

\* the names and callbacks listeners of a DVS 304 are registered with:
\* Accept returns True without reading its argument, Pass returns None
DvsListenerNames == {"*", "reconfig"}
DvsCallbacks == {"Accept", "Pass"}

\* the lines the device sends unsolicited
EventLines == {Vol40, Vol7, Mix0, Exe7, Zpx}

\* the lines the device answers commands with
ReplyLines == {Vol40, Vol7, E13, E1, E99, Exe1, Zpx}

\* the names listeners are registered under
ListenerNames == {"*", "volume"}

\* the callbacks listeners are registered with: Stop stores ev.value and
\* returns True (the VolumeEventHandler of the tests), Pass returns None,
\* StopAt40 returns True for an event whose value is 40 and False otherwise
\* (it reads ev.value as well)
Callbacks == {"Stop", "Pass", "StopAt40"}

\* listener(event_obj): the value the callback returns, as a truth value,
\* or the exception it raises. An Event has the slots name and source only,
\* so that reading ev.value of one raises AttributeError
ListenerReturn(cb, ev) ==
    CASE cb = "Stop" ->
            IF ev.cls = "Event" THEN Raise("AttributeError") ELSE Yield(TRUE)
      [] cb = "Accept" -> Yield(TRUE)
      [] cb = "Pass" -> Yield(FALSE)
      [] cb = "StopAt40" ->
            IF ev.cls = "Event" THEN Raise("AttributeError")
            ELSE Yield(ev.value = Some(PyInt(40)))
      [] cb = "RemoveSelf" -> Yield(FALSE)
      [] cb = "Request" -> Yield(FALSE)

\* ------------------------------------------------------------------------
\* State
\* ------------------------------------------------------------------------
VARIABLES
    \* _ExtronProtocol fields
    _line_handler_event,    \* threading.Event: TRUE when set
    _waiting_for_response,
    _response,              \* a line or None
    _response_exception,    \* an exception or None
    _listeners,             \* list of (name, listener)
    \* the transport
    written,                \* the byte strings written to the transport, in order
    sent,                   \* the lines the device has sent, in order
    wire,                   \* the lines sent and not yet passed to handle_line
    \* the caller contexts
    pc,                     \* position of each caller in make_request
    cur,                    \* the call each caller is executing
    done,                   \* the completed calls of each caller, in order
    \* the line-delivery context
    rpc,                    \* position of the reader in handle_line
    rline,                  \* the line handle_line is processing, or None
    delivered,              \* the lines passed to handle_line, in order
    log,                    \* the listener invocations, in order
    \* the connection (ReaderThread and the auto-detect handshake)
    protocol,               \* class of the object installed as transport.protocol
    hpc,                    \* position of AutoExtronProtocol.connection_made
    rx,                     \* bytes the device has sent and ser.read has not returned
    buffer,                 \* the local buffer of the handshake
    made,                   \* the classes whose connection_made ran, in order
    dut_read,               \* the number of commands written that the device has read
    \* a function of the library applied to an argument on its own
    arg,                    \* the argument
    res,                    \* the result, or None while the function has not run
    \* a client of the session and the device at the other end
    dev,                    \* the state of the simulated device, or None
    access,                 \* the property access in progress, or None
    accessed                \* the completed property accesses, in order

vars == << _line_handler_event, _waiting_for_response, _response,
           _response_exception, _listeners, written, sent, wire,
           pc, cur, done, rpc, rline, delivered, log,
           protocol, hpc, rx, buffer, made, dut_read, arg, res, dev, access,
           accessed >>

link == << protocol, hpc, rx, buffer, made, dut_read >>

\* the connection without what the device has read
opened == << protocol, hpc, rx, buffer, made >>

probe == << arg, res >>

client == << dev, access, accessed >>

session == << _line_handler_event, _waiting_for_response, _response,
              _response_exception >>

\* line 41: self._event_members, the event properties of the class of the
\* session
_event_members == EventMembersOf(protocol)

\* a caller that is not inside make_request
NoCall == [req |-> << >>, seen |-> << >>, timed_out |-> FALSE,
           exception_from_thread |-> None]

\* _ExtronProtocol.__init__ (lines 29-37): the fields of a new session
InitSession ==
    /\ _line_handler_event = FALSE
    /\ _waiting_for_response = FALSE
    /\ _response = None
    /\ _response_exception = None
    /\ _listeners = << >>
    /\ written = << >>
    /\ sent = << >>
    /\ wire = << >>
    /\ pc = [c \in Callers |-> "idle"]
    /\ cur = [c \in Callers |-> NoCall]
    /\ done = [c \in Callers |-> << >>]
    /\ rpc = "idle"
    /\ rline = None
    /\ delivered = << >>
    /\ log = << >>

\* no function is being applied on its own
NoProbe ==
    /\ arg = None
    /\ res = None

\* no simulated device is attached and no property is accessed
NoClient ==
    /\ dev = None
    /\ access = None
    /\ accessed = << >>

\* ExtronDevice(uri, part_number=...) entered: ReaderThread has built the
\* session of class cls and called its connection_made; no handshake
Connected(cls) ==
    /\ protocol = cls
    /\ hpc = "none"
    /\ rx = << >>
    /\ buffer = << >>
    /\ made = << cls >>
    /\ dut_read = 0

\* an MPS 112 opened with its part number given
Init ==
    /\ InitSession
    /\ Connected("ExtronMPS112Protocol")
    /\ NoProbe
    /\ NoClient

\* ------------------------------------------------------------------------
\* make_request, one action per statement
\* ------------------------------------------------------------------------
Outcome(call, kind, val, exc) ==
    [req |-> call.req, seen |-> call.seen, timed_out |-> call.timed_out,
     kind |-> kind, val |-> val, exc |-> exc]

\* an encoding that ends the command with the line terminator
EncodeWithTerminator(request) == request \o << "\r", "\n" >>

\* request.encode(ENCODING, UNICODE_HANDLING): latin-1 encodes each of the
\* characters of Requests as one byte, and nothing is appended
Encode(request) == request

\* line 85: self._waiting_for_response = True
Entered(c, request) ==
    /\ _waiting_for_response' = TRUE
    /\ pc' = [pc EXCEPT ![c] = "write"]
    /\ cur' = [cur EXCEPT ![c] = [NoCall EXCEPT !.req = request]]

\* make_request(request) is called
MakeRequestEnter(c, request) ==
    /\ pc[c] = "idle"
    /\ Len(done[c]) < MaxCalls
    /\ Entered(c, request)
    /\ UNCHANGED << link, probe, client, _line_handler_event, _response, _response_exception, _listeners,
                    written, sent, wire, done, rpc, rline, delivered, log >>

\* line 88: self.transport.write(request.encode(...))
MakeRequestWrite(c) ==
    /\ pc[c] = "write"
    /\ written' = Append(written, Encode(cur[c].req))
    /\ pc' = [pc EXCEPT ![c] = "wait"]
    /\ UNCHANGED << link, probe, client, session, _listeners, sent, wire, cur, done, rpc, rline,
                    delivered, log >>

\* line 88: self.transport.write raises (the port is gone): nothing is
\* written, the exception leaves make_request and line 92 is not reached
MakeRequestWriteRaises(c) ==
    /\ pc[c] = "write"
    /\ done' = [done EXCEPT ![c] =
                   Append(@, Outcome(cur[c], "raise", None,
                                     Some([cls |-> "SerialException", code |-> None])))]
    /\ cur' = [cur EXCEPT ![c] = NoCall]
    /\ pc' = [pc EXCEPT ![c] = "idle"]
    /\ UNCHANGED << link, probe, client, session, _listeners, written, sent, wire, rpc,
                    rline, delivered, log >>

\* line 90: self._line_handler_event.wait(timeout) returns because the
\* event is set
MakeRequestWaitSignalled(c) ==
    /\ pc[c] = "wait"
    /\ _line_handler_event
    /\ pc' = [pc EXCEPT ![c] = "clear"]
    /\ UNCHANGED << link, probe, client, session, _listeners, written, sent, wire, cur, done, rpc,
                    rline, delivered, log >>

\* line 90: self._line_handler_event.wait(timeout) returns because the
\* timeout has elapsed with the event not set
MakeRequestWaitTimeout(c) ==
    /\ pc[c] = "wait"
    /\ ~_line_handler_event
    /\ pc' = [pc EXCEPT ![c] = "clear"]
    /\ cur' = [cur EXCEPT ![c].timed_out = TRUE]
    /\ UNCHANGED << link, probe, client, session, _listeners, written, sent, wire, done, rpc, rline,
                    delivered, log >>

\* a make_request that leaves the event as it finds it
EventLeftAsIs == _line_handler_event

\* threading.Event.clear(): the state of the event afterwards
EventCleared == FALSE

\* line 91: self._line_handler_event.clear()
MakeRequestClear(c) ==
    /\ pc[c] = "clear"
    /\ _line_handler_event' = EventCleared
    /\ pc' = [pc EXCEPT ![c] = "unflag"]
    /\ UNCHANGED << link, probe, client, _waiting_for_response, _response, _response_exception,
                    _listeners, written, sent, wire, cur, done, rpc, rline,
                    delivered, log >>

\* a make_request that leaves the flag as it finds it
FlagLeftAsIs == _waiting_for_response

\* line 92: the value assigned to the flag
FlagCleared == FALSE

\* line 92: self._waiting_for_response = False
MakeRequestUnflag(c) ==
    /\ pc[c] = "unflag"
    /\ _waiting_for_response' = FlagCleared
    /\ pc' = [pc EXCEPT ![c] = "check"]
    /\ UNCHANGED << link, probe, client, _line_handler_event, _response, _response_exception,
                    _listeners, written, sent, wire, cur, done, rpc, rline,
                    delivered, log >>

\* a raise that leaves the captured exception in place
ExceptionKept == _response_exception

\* line 80: self._response_exception = None
ExceptionConsumed == None

\* line 77, _handle_possible_exception_from_thread called at line 94: the
\* test finds an exception captured
MakeRequestException(c) ==
    /\ pc[c] = "check"
    /\ ~IsNone(_response_exception)
    /\ pc' = [pc EXCEPT ![c] = "fetch"]
    /\ UNCHANGED << link, probe, client, session, _listeners, written, sent, wire, cur, done, rpc,
                    rline, delivered, log >>

\* line 79: exception_from_thread = self._response_exception, which another
\* caller may have consumed since the test
MakeRequestFetch(c) ==
    /\ pc[c] = "fetch"
    /\ cur' = [cur EXCEPT ![c].exception_from_thread = _response_exception]
    /\ pc' = [pc EXCEPT ![c] = "consume"]
    /\ UNCHANGED << link, probe, client, session, _listeners, written, sent, wire, done, rpc,
                    rline, delivered, log >>

\* line 81: raise exception_from_thread; raising None is a TypeError
Raised(exception_from_thread) ==
    IF IsNone(exception_from_thread)
    THEN Some([cls |-> "TypeError", code |-> None])
    ELSE exception_from_thread

\* lines 80-81: the captured exception is consumed and the local raised,
\* and make_request ends
MakeRequestRaise(c) ==
    /\ pc[c] = "consume"
    /\ _response_exception' = ExceptionConsumed
    /\ done' = [done EXCEPT ![c] =
                   Append(@, Outcome(cur[c], "raise", None,
                                     Raised(cur[c].exception_from_thread)))]
    /\ cur' = [cur EXCEPT ![c] = NoCall]
    /\ pc' = [pc EXCEPT ![c] = "idle"]
    /\ UNCHANGED << link, probe, client, _line_handler_event, _waiting_for_response, _response,
                    _listeners, written, sent, wire, rpc, rline, delivered, log >>

\* line 77, _handle_possible_exception_from_thread called at line 94: the
\* test finds no exception captured
MakeRequestNoException(c) ==
    /\ pc[c] = "check"
    /\ IsNone(_response_exception)
    /\ pc' = [pc EXCEPT ![c] = "return"]
    /\ UNCHANGED << link, probe, client, session, _listeners, written, sent, wire, cur, done, rpc,
                    rline, delivered, log >>

\* line 95: return self._response
MakeRequestReturn(c) ==
    /\ pc[c] = "return"
    /\ done' = [done EXCEPT ![c] =
                   Append(@, Outcome(cur[c], "return", _response, None))]
    /\ cur' = [cur EXCEPT ![c] = NoCall]
    /\ pc' = [pc EXCEPT ![c] = "idle"]
    /\ UNCHANGED << link, probe, client, session, _listeners, written, sent, wire, rpc, rline,
                    delivered, log >>

\* ------------------------------------------------------------------------
\* _handle_device_event
\* ------------------------------------------------------------------------
RECURSIVE ScanMembers(_, _), ScanMember(_, _, _), ScanMemberLast(_, _, _)
\* the loop over self._event_members from member i on: the first member
\* whose matcher returns an event (idx, ev), or the exception a matcher
\* raises before that, or idx = 0 when no member matches
ScanMembers(line, i) ==
    IF i > Len(_event_members) THEN [exc |-> "", idx |-> 0, ev |-> None]
    ELSE ScanMember(fmatch(_event_members[i][2], line), line, i)

\* a loop that goes through all members and keeps the last one that matches
ScanMemberLast(r, line, i) ==
    IF r.exc # "" THEN [exc |-> r.exc, idx |-> i, ev |-> None]
    ELSE IF ~IsNone(r.ev) /\ ScanMembers(line, i + 1).idx = 0
         THEN [exc |-> "", idx |-> i, ev |-> r.ev]
    ELSE ScanMembers(line, i + 1)

\* lines 51-52 for member i, r being what its matcher returned or raised
ScanMember(r, line, i) ==
    IF r.exc # "" THEN [exc |-> r.exc, idx |-> i, ev |-> None]
    ELSE IF ~IsNone(r.ev) THEN [exc |-> "", idx |-> i, ev |-> r.ev]
    ELSE ScanMembers(line, i + 1)

\* a selection that knows no wildcard
ListenerSelectedByNameOnly(listener_event_name, name) ==
    listener_event_name = name

\* line 56: listener_event_name in ("*", name)
ListenerSelected(listener_event_name, name) ==
    listener_event_name \in {"*", name}

\* a loop that goes on whatever the listener returns
ListenerNeverStops(cb, ev) == FALSE

\* the listener has returned a value, r being the outcome of its call
ReturnedTruthy(r) == r.exc = "" /\ r.val

\* lines 58-59: if listener(event_obj): return True
ListenerStops(cb, ev) == ReturnedTruthy(ListenerReturn(cb, ev))

\* line 58: the exception listener(event_obj) raises, "" when it returns
ListenerRaises(cb, ev) == ListenerReturn(cb, ev).exc

RECURSIVE InvokeListeners(_, _, _, _)
\* the loop over self._listeners from registration j on: the indexes of the
\* registrations whose listener is called, in call order. The loop ends
\* with the listener that returns something truthy or that raises
InvokeListeners(listeners, name, ev, j) ==
    IF j > Len(listeners) THEN << >>
    ELSE IF ListenerSelected(listeners[j][1], name)
         THEN IF ListenerStops(listeners[j][2], ev) THEN << j >>
              ELSE IF ListenerRaises(listeners[j][2], ev) # "" THEN << j >>
              ELSE << j >> \o InvokeListeners(listeners, name, ev, j + 1)
         ELSE InvokeListeners(listeners, name, ev, j + 1)

\* the registry with each registration paired with its position
Positioned(listeners) ==
    [j \in 1..Len(listeners) |-> << listeners[j][1], listeners[j][2], j >>]

\* the registry of a list of positioned registrations
Unpositioned(regs) == [j \in 1..Len(regs) |-> << regs[j][1], regs[j][2] >>]

\* the positioned registrations without the first one of the pair
\* (name, cb): list.remove
WithoutFirst(regs, i) == SubSeq(regs, 1, i - 1) \o SubSeq(regs, i + 1, Len(regs))

\* the positioned registrations after the listener of reg has been called
ListenerEffect(reg, regs) ==
    IF reg[2] = "RemoveSelf"
    THEN WithoutFirst(regs, CHOOSE i \in 1..Len(regs) :
                               /\ regs[i][1] = reg[1] /\ regs[i][2] = reg[2]
                               /\ \A k \in 1..(i - 1) :
                                     regs[k][1] # reg[1] \/ regs[k][2] # reg[2])
    ELSE regs

\* the invocation at position p followed by those of the rest of the loop
Invoked(p, rest) == [invoked |-> << p >> \o rest.invoked, regs |-> rest.regs]

RECURSIVE IterateListeners(_, _, _, _), ListenerCalled(_, _, _, _, _)
\* lines 55-59, the loop "for listener_event_name, listener in
\* self._listeners" over the list object itself, which a listener may
\* change while the loop runs: the list iterator is at index j and takes
\* whatever element the list holds there. invoked are the positions, at the
\* beginning of the dispatch, of the registrations called, regs the
\* registry at the end
IterateListeners(regs, name, ev, j) ==
    IF j > Len(regs) THEN [invoked |-> << >>, regs |-> regs]
    ELSE IF ListenerSelected(regs[j][1], name)
         THEN ListenerCalled(regs[j], ListenerEffect(regs[j], regs), name, ev, j)
         ELSE IterateListeners(regs, name, ev, j + 1)

\* lines 58-59 for the registration reg found at index j, after being the
\* registry once its listener has run
ListenerCalled(reg, after, name, ev, j) ==
    IF ListenerStops(reg[2], ev) THEN [invoked |-> << reg[3] >>, regs |-> after]
    ELSE IF ListenerRaises(reg[2], ev) # "" THEN [invoked |-> << reg[3] >>, regs |-> after]
    ELSE Invoked(reg[3], IterateListeners(after, name, ev, j + 1))

\* the exception that ended the loop over the listeners, "" for none: the
\* one the listener called last raised
DispatchRaised(listeners, invoked, ev) ==
    IF invoked = << >> THEN ""
    ELSE ListenerRaises(listeners[invoked[Len(invoked)]][2], ev)

\* lines 55-60, the loop having called the listeners invoked: the
\* exception of a listener leaves _handle_device_event, else it returns
\* True
EventDispatched(exc, event_obj, invoked) ==
    [exc |-> exc, handled |-> exc = "", ev |-> Some(event_obj), invoked |-> invoked]

\* lines 55-59: the listeners are invoked with event_obj
EventNotified(name, event_obj, listeners) ==
    EventDispatched(DispatchRaised(listeners,
                                   InvokeListeners(listeners, name, event_obj, 1),
                                   event_obj),
                    event_obj, InvokeListeners(listeners, name, event_obj, 1))

\* lines 53-54: event_obj.name = name, event_obj.source = self
EventNamed(name, ev, listeners) ==
    EventNotified(name, [ev EXCEPT !.name = Some(name), !.source = Some("self")],
                  listeners)

\* what _handle_device_event does with the outcome m of the loop over the
\* members
EventScanned(m, listeners) ==
    IF m.exc # "" THEN [exc |-> m.exc, handled |-> FALSE, ev |-> None, invoked |-> << >>]
    ELSE IF m.idx = 0 THEN [exc |-> "", handled |-> FALSE, ev |-> None, invoked |-> << >>]
    ELSE EventNamed(_event_members[m.idx][1], Val(m.ev), listeners)

\* _handle_device_event(line): exc is the exception it raises ("" for
\* none), handled its return value, ev the event built (name and source
\* set), invoked the registrations called
_handle_device_event(line, listeners) ==
    EventScanned(ScanMembers(line, 1), listeners)

\* ------------------------------------------------------------------------
\* handle_line, called by the reader thread once per line
\* ------------------------------------------------------------------------
\* where a caller inside make_request stands relative to its write and
\* its wait
Phase(p) ==
    CASE p = "write" -> "before_write"
      [] p = "wait" -> "waiting"
      [] OTHER -> "after_wait"

\* each caller inside make_request notes the line and where it stood
Note(line) ==
    [c \in Callers |->
        IF pc[c] = "idle" THEN cur[c]
        ELSE [cur[c] EXCEPT !.seen = Append(@, << Phase(pc[c]), line >>)]]

\* the invocations of one dispatch, as log entries
Invocations(seq, listeners, r) ==
    [k \in 1..Len(r.invoked) |->
        [seq |-> seq, reg |-> r.invoked[k],
         name |-> listeners[r.invoked[k]][1],
         cb |-> listeners[r.invoked[k]][2],
         stopped |-> ListenerStops(listeners[r.invoked[k]][2], Val(r.ev)),
         ev |-> Val(r.ev)]]

\* a handle_line that lets a notification line through to the listeners
\* while a request is in flight
TakenAsReplyUnlessNotification(line) ==
    /\ _waiting_for_response
    /\ ~_handle_device_event(line, _listeners).handled

\* a handle_line that takes every line as a reply
TakenAsReplyAlways(line) == TRUE

\* line 66: if self._waiting_for_response
TakenAsReply(line) == _waiting_for_response

\* line 66 with the flag set: the line is taken as the reply
HandleLineReply ==
    /\ rpc = "idle"
    /\ wire # << >>
    /\ TakenAsReply(Head(wire))
    /\ wire' = Tail(wire)
    /\ rline' = Some(Head(wire))
    /\ rpc' = "exception"
    /\ delivered' = Append(delivered, [line |-> Head(wire),
                                       waiting |-> _waiting_for_response,
                                       raised |-> ""])
    /\ cur' = Note(Head(wire))
    /\ UNCHANGED << link, probe, client, session, _listeners, written, sent, pc, done, log >>

\* line 67: line.startswith("E")
IsErrorReply(line) == StartsWith(line, << "E" >>)

\* lines 67-68: the captured error
HandleLineException ==
    /\ rpc = "exception"
    /\ _response_exception' =
          IF IsErrorReply(Val(rline))
          THEN Some(exception_from_error_code(Val(rline)))
          ELSE _response_exception
    /\ rpc' = "response"
    /\ UNCHANGED << link, probe, client, _line_handler_event, _waiting_for_response, _response,
                    _listeners, written, sent, wire, pc, cur, done, rline,
                    delivered, log >>

\* line 69: self._response = line
HandleLineResponse ==
    /\ rpc = "response"
    /\ _response' = rline
    /\ rpc' = "set"
    /\ UNCHANGED << link, probe, client, _line_handler_event, _waiting_for_response,
                    _response_exception, _listeners, written, sent, wire, pc,
                    cur, done, rline, delivered, log >>

\* line 70: self._line_handler_event.set()
HandleLineSet ==
    /\ rpc = "set"
    /\ _line_handler_event' = TRUE
    /\ rpc' = "idle"
    /\ rline' = None
    /\ UNCHANGED << link, probe, client, _waiting_for_response, _response, _response_exception,
                    _listeners, written, sent, wire, pc, cur, done, delivered,
                    log >>

\* lines 71-72: the flag is clear and a descriptor matches the line
HandleLineEvent ==
    /\ rpc = "idle"
    /\ wire # << >>
    /\ ~TakenAsReply(Head(wire))
    /\ \E r \in {_handle_device_event(Head(wire), _listeners)} :
       /\ r.exc = ""
       /\ r.handled
       /\ log' = log \o Invocations(Len(delivered) + 1, _listeners, r)
    /\ wire' = Tail(wire)
    /\ delivered' = Append(delivered, [line |-> Head(wire),
                                       waiting |-> _waiting_for_response,
                                       raised |-> ""])
    /\ cur' = Note(Head(wire))
    /\ UNCHANGED << link, probe, client, session, _listeners, written, sent, pc, done, rpc, rline >>

\* line 53: the event of member m.idx named after it
NamedEvent(m) ==
    [Val(m.ev) EXCEPT !.name = Some(_event_members[m.idx][1]), !.source = Some("self")]

\* the listeners have been run for event ev, r being the outcome of the loop
ListenersRun(ev, r) ==
    /\ DispatchRaised(_listeners, r.invoked, ev) = ""
    /\ log' = log \o Invocations(Len(delivered) + 1, _listeners,
                                  [invoked |-> r.invoked, ev |-> Some(ev)])
    /\ _listeners' = Unpositioned(r.regs)

\* lines 71-72 with listeners that may change the registry: the flag is
\* clear and a descriptor matches the line
HandleLineEventListenersChange ==
    /\ rpc = "idle"
    /\ wire # << >>
    /\ ~TakenAsReply(Head(wire))
    /\ \E m \in {ScanMembers(Head(wire), 1)} :
       /\ m.exc = ""
       /\ m.idx # 0
       /\ \E ev \in {NamedEvent(m)} :
             ListenersRun(ev, IterateListeners(Positioned(_listeners),
                                               _event_members[m.idx][1], ev, 1))
    /\ wire' = Tail(wire)
    /\ delivered' = Append(delivered, [line |-> Head(wire),
                                       waiting |-> _waiting_for_response,
                                       raised |-> ""])
    /\ cur' = Note(Head(wire))
    /\ UNCHANGED << link, probe, client, session, written, sent, pc, done, rpc, rline >>

\* lines 71-72 and 56-58 with the listener Request, which calls
\* make_request("V") and returns None: the flag is clear, a descriptor
\* matches the line and the registry holds that one listener, selected for
\* the event: handle_line is inside the listener, which has entered
\* make_request (line 85) as caller context 2
HandleLineEventRequesting ==
    /\ rpc = "idle"
    /\ wire # << >>
    /\ ~TakenAsReply(Head(wire))
    /\ Len(_listeners) = 1
    /\ _listeners[1][2] = "Request"
    /\ pc[2] = "idle"
    /\ \E r \in {_handle_device_event(Head(wire), _listeners)} :
       /\ r.exc = ""
       /\ r.handled
       /\ r.invoked = << 1 >>
       /\ log' = log \o Invocations(Len(delivered) + 1, _listeners, r)
    /\ wire' = Tail(wire)
    /\ delivered' = Append(delivered, [line |-> Head(wire),
                                       waiting |-> _waiting_for_response,
                                       raised |-> ""])
    /\ rpc' = "listener"
    /\ _waiting_for_response' = TRUE
    /\ pc' = [pc EXCEPT ![2] = "write"]
    /\ cur' = [Note(Head(wire)) EXCEPT
                  ![2] = [NoCall EXCEPT !.req = << "V" >>]]
    /\ UNCHANGED << link, probe, client, _line_handler_event, _response,
                    _response_exception, _listeners, written, sent, done, rline >>

\* lines 58-61: the make_request of the listener has returned, the
\* listener returns None and handle_line returns to the reader
ListenerReturns ==
    /\ rpc = "listener"
    /\ pc[2] = "idle"
    /\ done[2][Len(done[2])].kind = "return"
    /\ rpc' = "idle"
    /\ UNCHANGED << link, probe, client, session, _listeners, written, sent, wire, pc,
                    cur, done, rline, delivered, log >>

\* lines 58 and 71: the make_request of the listener has raised; nothing
\* catches the exception in the listener, in _handle_device_event or in
\* handle_line, so it leaves handle_line and ends the reader thread
ListenerRequestRaises ==
    /\ rpc = "listener"
    /\ pc[2] = "idle"
    /\ done[2][Len(done[2])].kind = "raise"
    /\ rpc' = "dead"
    /\ delivered' = [delivered EXCEPT ![Len(delivered)].raised =
                         Val(done[2][Len(done[2])].exc).cls]
    /\ UNCHANGED << link, probe, client, session, _listeners, written, sent, wire, pc,
                    cur, done, rline, log >>

\* a handle_line that keeps a line no descriptor matches as a response
HandleLineUnexpectedKept ==
    /\ rpc = "idle"
    /\ wire # << >>
    /\ ~TakenAsReply(Head(wire))
    /\ \E r \in {_handle_device_event(Head(wire), _listeners)} :
       /\ r.exc = ""
       /\ ~r.handled
    /\ _response' = Some(Head(wire))
    /\ _line_handler_event' = TRUE
    /\ wire' = Tail(wire)
    /\ delivered' = Append(delivered, [line |-> Head(wire),
                                       waiting |-> _waiting_for_response,
                                       raised |-> ""])
    /\ cur' = Note(Head(wire))
    /\ UNCHANGED << link, probe, client, _waiting_for_response, _response_exception,
                    _listeners, written, sent, pc, done, rpc, rline, log >>

\* lines 73-74: the flag is clear and no descriptor matches the line
HandleLineUnexpected ==
    /\ rpc = "idle"
    /\ wire # << >>
    /\ ~TakenAsReply(Head(wire))
    /\ \E r \in {_handle_device_event(Head(wire), _listeners)} :
       /\ r.exc = ""
       /\ ~r.handled
    /\ wire' = Tail(wire)
    /\ delivered' = Append(delivered, [line |-> Head(wire),
                                       waiting |-> _waiting_for_response,
                                       raised |-> ""])
    /\ cur' = Note(Head(wire))
    /\ UNCHANGED << link, probe, client, session, _listeners, written, sent, pc, done, rpc, rline, log >>

\* line 71: the flag is clear and a matcher or a listener raises; the
\* exception leaves handle_line and ends the reader thread. The listeners
\* called before the exception have run
HandleLineRaises ==
    /\ rpc = "idle"
    /\ wire # << >>
    /\ ~TakenAsReply(Head(wire))
    /\ \E r \in {_handle_device_event(Head(wire), _listeners)} :
       /\ r.exc # ""
       /\ delivered' = Append(delivered, [line |-> Head(wire),
                                          waiting |-> _waiting_for_response,
                                          raised |-> r.exc])
       /\ log' = log \o Invocations(Len(delivered) + 1, _listeners, r)
    /\ wire' = Tail(wire)
    /\ rpc' = "dead"
    /\ cur' = Note(Head(wire))
    /\ UNCHANGED << link, probe, client, session, _listeners, written, sent, pc, done, rline >>

\* ------------------------------------------------------------------------
\* The listener registry
\* ------------------------------------------------------------------------
\* add_event_listener(name, listener)
add_event_listener(name, listener) ==
    /\ Len(_listeners) < MaxListeners
    /\ _listeners' = Append(_listeners, << name, listener >>)
    /\ UNCHANGED << link, probe, client, session, written, sent, wire, pc, cur, done, rpc, rline,
                    delivered, log >>

\* list.remove(x): the list without its first element equal to x
ListRemove(list, x) ==
    LET i == CHOOSE j \in 1..Len(list) :
                 list[j] = x /\ \A k \in 1..(j - 1) : list[k] # x
    IN  SubSeq(list, 1, i - 1) \o SubSeq(list, i + 1, Len(list))

\* remove_event_listener(name, listener) of a registered pair
remove_event_listener(name, listener) ==
    /\ \E j \in 1..Len(_listeners) : _listeners[j] = << name, listener >>
    /\ _listeners' = ListRemove(_listeners, << name, listener >>)
    /\ UNCHANGED << link, probe, client, session, written, sent, wire, pc, cur, done, rpc, rline,
                    delivered, log >>

\* self._listeners.remove((name, listener)): the list afterwards, or the
\* ValueError list.remove raises when no element equals the pair
Removed(list, x) ==
    IF \E j \in 1..Len(list) : list[j] = x THEN Yield(ListRemove(list, x))
    ELSE Raise("ValueError")

\* a call of the registry as its caller sees it: the registry before and
\* after, and the exception raised ("" for none)
RegistryCall(op, pair, before, exc, after) ==
    [op |-> op, pair |-> pair, before |-> before, exc |-> exc, after |-> after]

\* a client calls add_event_listener(name, listener)
AddListenerCall(name, listener) ==
    /\ Len(arg) < MaxOps
    /\ Len(_listeners) < MaxRegistry
    /\ _listeners' = Append(_listeners, << name, listener >>)
    /\ arg' = Append(arg, RegistryCall("add", << name, listener >>, _listeners, "",
                                       Append(_listeners, << name, listener >>)))
    /\ UNCHANGED << link, res, client, session, written, sent, wire, pc, cur, done, rpc,
                    rline, delivered, log >>

\* the call remove_event_listener(name, listener), r being what list.remove
\* makes of the registry
RemoveListenerCalled(pair, r) ==
    /\ _listeners' = (IF r.exc = "" THEN r.val ELSE _listeners)
    /\ arg' = Append(arg, RegistryCall("remove", pair, _listeners, r.exc,
                                       IF r.exc = "" THEN r.val ELSE _listeners))

\* a client calls remove_event_listener(name, listener), registered or not
RemoveListenerCall(name, listener) ==
    /\ Len(arg) < MaxOps
    /\ RemoveListenerCalled(<< name, listener >>, Removed(_listeners, << name, listener >>))
    /\ UNCHANGED << link, res, client, session, written, sent, wire, pc, cur, done, rpc,
                    rline, delivered, log >>

\* ------------------------------------------------------------------------
\* The device
\* ------------------------------------------------------------------------
\* the device sends a line at a time of its choosing
DeviceSend(line) ==
    /\ Len(sent) < MaxLines
    /\ sent' = Append(sent, line)
    /\ wire' = Append(wire, line)
    /\ UNCHANGED << link, probe, client, session, _listeners, written, pc, cur, done, rpc, rline,
                    delivered, log >>

\* the device reads a command that waits for it (process_write, called
\* by the write of the command) and answers it with one line
DeviceReply(line) ==
    /\ dut_read < Len(written)
    /\ dut_read' = dut_read + 1
    /\ sent' = Append(sent, line)
    /\ wire' = Append(wire, line)
    /\ UNCHANGED << opened, probe, client, session, _listeners, written, pc, cur, done, rpc, rline,
                    delivered, log >>

\* ------------------------------------------------------------------------
\* Opening a device: ExtronDevice and the auto-detect handshake
\* ------------------------------------------------------------------------
\* TERMINATOR = b"\r\n"
TERMINATOR == << "\r", "\n" >>

\* the position of the first TERMINATOR in buf, 0 when it has none
FirstTerminator(buf) ==
    LET at == {i \in 1..(Len(buf) - 1) : SubSeq(buf, i, i + 1) = TERMINATOR}
    IN  IF at = {} THEN 0 ELSE CHOOSE i \in at : \A j \in at : i <= j

\* a split at the line feed alone, which leaves the carriage return in the
\* packet
SplitAtLineFeed(buf) ==
    LET i == FirstTerminator(buf)
    IN  << SubSeq(buf, 1, i), Drop(buf, i + 1) >>

\* buffer.split(TERMINATOR, 1) of a buffer that holds a TERMINATOR: the
\* bytes before the first one and the bytes after it
SplitFirst(buf) ==
    LET i == FirstTerminator(buf)
    IN  << SubSeq(buf, 1, i - 1), Drop(buf, i + 1) >>

\* packet.decode("latin-1", "replace"): each byte becomes the character of
\* the same code, which is how bytes are written here
Decode(packet) == packet

\* ExtronDevice(serial_uri, part_number): arg holds the part number of the
\* device behind serial_uri and the part_number argument. With a part
\* number the session class is resolved at once; without, ReaderThread
\* starts with an AutoExtronProtocol
InitOpen ==
    /\ InitSession
    /\ \E device \in PartNumbers : \E part_number \in {None} \cup {Some(p) : p \in PartNumbers} :
          /\ arg = Some([serial_uri |-> device, part_number |-> part_number])
          /\ IF IsNone(part_number)
             THEN /\ protocol = "AutoExtronProtocol"
                  /\ hpc = "start"
                  /\ rx = << >>
                  /\ buffer = << >>
                  /\ made = << >>
                  /\ dut_read = 0
             ELSE Connected(get_protocol_class_for_part_number(Val(part_number)))
    /\ res = None
    /\ NoClient

\* connection_made, line 51: ser.write("N".encode("latin-1", "replace"))
HandshakeWrite ==
    /\ hpc = "start"
    /\ written' = Append(written, Encode(<< "N" >>))
    /\ made' = Append(made, "AutoExtronProtocol")
    /\ hpc' = "read"
    /\ UNCHANGED << session, _listeners, sent, wire, pc, cur, done, rpc, rline,
                    delivered, log, protocol, rx, buffer, dut_read, probe, client >>

\* ser.read(ser.in_waiting or 1): all the bytes waiting; a read that
\* blocked for one byte returns the first byte to arrive
SerialRead == IF rx = << >> THEN {} ELSE {rx, << rx[1] >>}

\* connection_made, lines 55-65: one turn of the read loop. ser.read
\* returns the bytes waiting, or the one byte it blocked for; the turn that
\* completes a TERMINATOR resolves the session class, installs the session
\* and calls its connection_made
HandshakeRead(data) ==
    /\ hpc = "read"
    /\ data # << >>
    /\ rx' = Drop(rx, Len(data))
    /\ LET filled == buffer \o data IN
       IF FirstTerminator(filled) = 0
       THEN /\ buffer' = filled
            /\ UNCHANGED << session, protocol, hpc, made, res >>
       ELSE LET packet == SplitFirst(filled)[1]
                part_number == Decode(packet)
                proto_class == get_protocol_class_for_part_number(part_number)
            IN  /\ buffer' = SplitFirst(filled)[2]
                /\ res' = Some(part_number)
                /\ protocol' = proto_class
                /\ _line_handler_event' = FALSE
                /\ _waiting_for_response' = FALSE
                /\ _response' = None
                /\ _response_exception' = None
                /\ made' = Append(made, proto_class)
                /\ hpc' = "done"
    /\ UNCHANGED << _listeners, written, sent, wire, pc, cur, done, rpc, rline,
                    delivered, log, dut_read, arg, client >>

\* the device answers the N of the handshake, which it reads before it
\* writes its first byte, with its part number and the terminator, one
\* byte at a time
DeviceEmitByte ==
    LET reply == Val(arg).serial_uri \o TERMINATOR
        emitted == Len(buffer) + Len(rx)
    IN  /\ hpc = "read"
        /\ emitted < Len(reply)
        /\ rx' = Append(rx, reply[emitted + 1])
        /\ dut_read' = IF emitted = 0 THEN dut_read + 1 ELSE dut_read
        /\ sent' = IF emitted + 1 = Len(reply)
                   THEN Append(sent, Val(arg).serial_uri)
                   ELSE sent
        /\ UNCHANGED << session, _listeners, written, wire, pc, cur, done, rpc,
                        rline, delivered, log, protocol, hpc, buffer, made, probe, client >>

\* the device, having answered the N of the handshake, sends the
\* notification line Vol40 with its terminator
DeviceEmitLine ==
    /\ hpc \in {"read", "done"}
    /\ Len(sent) = 1
    /\ rx' = rx \o Vol40 \o TERMINATOR
    /\ sent' = Append(sent, Vol40)
    /\ UNCHANGED << session, _listeners, written, wire, pc, cur, done, rpc,
                    rline, delivered, log, protocol, hpc, buffer, made, dut_read, probe,
                    client >>

\* ReaderThread.run after connection_made has returned: the bytes read are
\* passed to data_received of the installed session, whose Packetizer
\* splits them at TERMINATOR and hands each line to handle_line; rx stands
\* for the bytes waiting and those the Packetizer has buffered
ReaderDeliverLine ==
    /\ hpc = "done"
    /\ FirstTerminator(rx) # 0
    /\ wire' = Append(wire, Decode(SplitFirst(rx)[1]))
    /\ rx' = SplitFirst(rx)[2]
    /\ UNCHANGED << session, _listeners, written, sent, pc, cur, done, rpc,
                    rline, delivered, log, protocol, hpc, buffer, made, dut_read, probe,
                    client >>

\* connection_made, lines 55-57: a turn of the read loop in which ser.read
\* times out (the port is opened with timeout=1) and returns no byte:
\* nothing is added to the buffer, no TERMINATOR is found, and the loop
\* goes round again
HandshakeReadTimeout ==
    /\ hpc = "read"
    /\ rx = << >>
    /\ FirstTerminator(buffer) = 0
    /\ UNCHANGED vars

\* connection_made, line 54: the loop test finds ser.is_open false, the
\* port having been closed while the handshake was reading; the loop ends
\* and connection_made returns, the transport still holding the
\* AutoExtronProtocol
HandshakePortClosed ==
    /\ hpc = "read"
    /\ hpc' = "closed"
    /\ UNCHANGED << session, _listeners, written, sent, wire, pc, cur, done, rpc,
                    rline, delivered, log, protocol, rx, buffer, made, dut_read, probe,
                    client >>

\* Serial.dut_write (tests/protocol_simdev.py, lines 188-189): the device
\* side of the port writes the bytes data as they are, nothing is appended;
\* they wait for the next ser.read of the handshake
dut_write(data) ==
    /\ hpc \in {"start", "read"}
    /\ Len(buffer) + Len(rx) + Len(data) <= MaxUnterminated
    /\ rx' = rx \o data
    /\ UNCHANGED << session, _listeners, written, sent, wire, pc, cur, done, rpc,
                    rline, delivered, log, protocol, hpc, buffer, made, dut_read, probe,
                    client >>

\* what a device that never ends a line writes: bytes of a part number and
\* carriage returns, never a line feed after a carriage return
UnterminatedWrites == {<< "6" >>, << "\r" >>, << "6", "0" >>}

\* ------------------------------------------------------------------------
\* Declaring a descriptor
\* ------------------------------------------------------------------------
\* the arguments descriptors are declared with: a value type or None, the
\* indices of a map-type property or None, command templates, a
\* notification pattern (None, the empty string or a pattern) and custom
\* functions; sphinx_build is the __sphinx_build__ flag of the interpreter
PropertyDeclarations ==
    [type_ : {None, Some("int"), Some("bool"), Some("_EXECUTIVE_MODE")},
     indices : {None, Some(<< 1, 2, 3 >>)},
     get_cmd : {None, Some(<< "V" >>)},
     set_cmd : {None, Some(<< "{", "0", "}", "V" >>)},
     set_cmd_response : {None, Some(<< >>),
                         Some(<< "^", "V", "o", "l", "(", "\\", "d", "+", ")", "$" >>)},
     fget : {None, Some("custom")},
     fset : {None, Some("custom")},
     fmatch : {None, Some("custom")},
     sphinx_build : BOOLEAN]

InitProp ==
    /\ InitSession
    /\ Connected("ExtronProtocol")
    /\ arg \in {Some(d) : d \in PropertyDeclarations}
    /\ res = None
    /\ NoClient

\* generic_event_property is called with the declaration
Declare ==
    /\ res = None
    /\ res' = Some(generic_event_property(Val(arg)))
    /\ UNCHANGED << session, _listeners, written, sent, wire, pc, cur, done, rpc,
                    rline, delivered, log, link, arg, client >>

NextProp == Declare

SpecProp == InitProp /\ [][NextProp]_vars

\* ------------------------------------------------------------------------
\* Generated accessors (_event.py) and the input property (device_mps112.py)
\* ------------------------------------------------------------------------
RECURSIVE Format(_, _, _)
\* template.format(value, index=index): a template is a list of characters
\* and of the replacement fields "{0}" and "{index}"
Format(template, value, index) ==
    IF template = << >> THEN << >>
    ELSE (CASE Head(template) = "{0}" -> value
            [] Head(template) = "{index}" -> index
            [] OTHER -> << Head(template) >>)
         \o Format(Tail(template), value, index)

\* the declarations whose accessors clients use here: the value type, the
\* indices (empty for a scalar) and the command templates (input is
\* declared with its own fget and fset and without get_cmd)
EventPropertyCommands(name) ==
    CASE name = "volume" ->
            [type_ |-> _INT_VALUE_CONVERTER, indices |-> {},
             get_cmd |-> << "V" >>, set_cmd |-> << "{0}", "V" >>]
      [] name = "mic_mute" ->
            [type_ |-> _BOOL_VALUE_CONVERTER, indices |-> {},
             get_cmd |-> << "M" >>, set_cmd |-> << "{0}", "M" >>]
      [] name = "color" ->
            [type_ |-> _INT_VALUE_CONVERTER, indices |-> {},
             get_cmd |-> << "C" >>, set_cmd |-> << "{0}", "C" >>]
      [] name = "output_rate" ->
            [type_ |-> _OUTPUT_RESOLUTION_AND_REFRESH, indices |-> {},
             get_cmd |-> << "=" >>, set_cmd |-> << "{0}", "=" >>]
      [] name = "video_input_format" ->
            [type_ |-> _INPUT_VIDEO_FORMAT, indices |-> 1..4,
             get_cmd |-> << "{index}", "\\" >>,
             set_cmd |-> << "{index}", "*", "{0}", "\\" >>]
      [] name = "input" ->
            [type_ |-> _INT_VALUE_CONVERTER, indices |-> 1..3,
             get_cmd |-> << >>, set_cmd |-> << "{index}", "*", "{0}", "!" >>]

\* an access to a property: fn is "fget", "fset", "__getitem__" or
\* "__setitem__", index is the index of an item access (0 otherwise) and
\* value the value of a set (None otherwise)
Access(fn, name, index, value) ==
    [fn |-> fn, name |-> name, index |-> index, value |-> value]

\* set_cmd.format(type_converter.to_raw(value), index=index), raw being the
\* outcome of to_raw: an exception of to_raw leaves the accessor
FormatSet(set_cmd, raw, index) ==
    IF raw.exc # "" THEN raw ELSE Yield(Format(set_cmd, raw.val, index))

\* _input_fset and setitem of _SwitchInputProperty: "{0}!".format(value)
\* and "{0}*{1}!".format(group_number, value), the values being ints
InputRequest(a) ==
    CASE a.fn = "fset" -> Yield(FormatD(Val(a.value)[2]) \o << "!" >>)
      [] a.fn = "__setitem__" ->
            Yield(FormatD(a.index) \o << "*" >> \o FormatD(Val(a.value)[2]) \o << "!" >>)
      [] OTHER -> Yield(<< "I" >>)

\* accessors that leave the index out of the request
GeneratedRequestWithoutIndex(p, a) ==
    CASE a.fn \in {"fget", "__getitem__"} -> Yield(Format(p.get_cmd, << >>, << >>))
      [] OTHER -> FormatSet(p.set_cmd, ToRaw(p.type_, Val(a.value)), << >>)

\* an accessor that returns without calling make_request
NoRequest == Yield(None)

\* the _ArrayEventProperty the getter of an indexed property returns
_ArrayEventProperty(name) == << "_ArrayEventProperty", name >>

\* the functions made by _make_getter, _make_setter, _make_getitemmer and
\* _make_setitemmer for declaration p, up to their call of make_request:
\* the request they pass to it. The fget of an indexed property is made by
\* _make_indexed_getter and makes no request, and such a property has no
\* fset: assigning to it raises AttributeError
GeneratedRequest(p, a) ==
    CASE a.fn = "fget" -> IF p.indices = {} THEN Yield(p.get_cmd) ELSE NoRequest
      [] a.fn = "fset" ->
            IF p.indices = {}
            THEN FormatSet(p.set_cmd, ToRaw(p.type_, Val(a.value)), << >>)
            ELSE Raise("AttributeError")
      [] a.fn = "__getitem__" -> Yield(Format(p.get_cmd, << >>, FormatD(a.index)))
      [] a.fn = "__setitem__" ->
            FormatSet(p.set_cmd, ToRaw(p.type_, Val(a.value)), FormatD(a.index))

\* accessors that pass any index on to the generated function
AccessRequestUnchecked(a) ==
    IF a.name = "input" THEN InputRequest(a)
    ELSE GeneratedRequest(EventPropertyCommands(a.name), a)

\* the request of access a, or the exception raised before make_request is
\* called: _ArrayEventProperty.__getitem__ and __setitem__ raise IndexError
\* for an index outside the indices
AccessRequest(a) ==
    IF a.fn \in {"__getitem__", "__setitem__"}
       /\ a.index \notin EventPropertyCommands(a.name).indices
    THEN Raise("IndexError")
    ELSE IF a.name = "input" THEN InputRequest(a)
    ELSE GeneratedRequest(EventPropertyCommands(a.name), a)

\* the line get_info of the device writes and _parse_status reads
StatusLine(mode, g1, g2, g3, audgroup, audinput) ==
    << "M", "o", "d" >> \o FormatD(mode) \o << " ", "1", "G" >> \o FormatD(g1)
    \o << " ", "2", "G" >> \o FormatD(g2) \o << " ", "3", "G" >> \o FormatD(g3)
    \o << " ", "4", "G", "=" >> \o FormatD(audgroup) \o << "G" >> \o FormatD(audinput)

\* whether the pattern of _parse_status matches the line; its $ also stands
\* before a newline that ends the line
IsStatusLine(line) ==
    /\ Len(BeforeDollar(line)) = 23
    /\ \A i \in {4, 8, 12, 16, 21, 23} : IsDigit(line[i])
    /\ BeforeDollar(line) =
           StatusLine(DigitVal(line[4]), DigitVal(line[8]), DigitVal(line[12]),
                      DigitVal(line[16]), DigitVal(line[21]), DigitVal(line[23]))

\* lines 80-93: the Status built from the groups of the match, the mode
\* converted already
StatusOf(mode, line) ==
    IF mode.exc # "" THEN Raise(mode.exc)
    ELSE Yield([mode |-> mode.val,
                input |-> << DigitVal(line[8]), DigitVal(line[12]), DigitVal(line[16]) >>,
                audio_group |-> DigitVal(line[21]),
                audio_input |-> DigitVal(line[23])])

\* _parse_status(line): without a match, match[1] raises TypeError; the
\* mode digit is converted by _SWITCHER_MODE.to_api, which raises KeyError
\* for a digit other than 1 and 2
_parse_status(line) ==
    IF ~IsStatusLine(line) THEN Raise("TypeError")
    ELSE StatusOf(ToApi(_SWITCHER_MODE, Some(<< line[4] >>)), line)

\* a flattening that ignores the group
_separate_to_single_input_ungrouped(group, index) == index

\* _separate_to_single_input(group, index)
_separate_to_single_input(group, index) ==
    IF index = 0 THEN 0 ELSE ((group - 1) * 4) + index

\* a proxy whose int value is the input of the first group
_SwitchInputPropertyOfFirstGroup(status) == PyInt(status.input[1])

\* _SwitchInputProperty.__new__: the int value of the proxy built from the
\* status read
_SwitchInputProperty(status) ==
    PyInt(_separate_to_single_input(status.audio_group, status.audio_input))

\* the value _input_fget and getitem return once parent.status has been
\* read, or the exception _parse_status raised
InputFromStatus(a, status) ==
    IF status.exc # "" THEN Raise(status.exc)
    ELSE IF a.fn = "fget" THEN Yield(Some(_SwitchInputProperty(status.val)))
    ELSE Yield(Some(PyInt(status.val.input[a.index])))

\* the value the input accessors return for the reply of their request
InputResult(a, reply) ==
    IF a.fn \in {"fset", "__setitem__"} THEN Yield(None)
    ELSE IF IsNone(reply) THEN Raise("TypeError")
    ELSE InputFromStatus(a, _parse_status(Val(reply)))

\* a conversion outcome as the outcome of the accessor: the value returned
Returned(r) == IF r.exc # "" THEN r ELSE Yield(Some(r.val))

\* what access a gives its caller once make_request has ended with
\* outcome call: the exception make_request raised, None for a set, and
\* for a get type_converter.to_api of the reply
AccessResult(a, call) ==
    IF call.kind = "raise" THEN Raise(Val(call.exc).cls)
    ELSE IF a.name = "input" THEN InputResult(a, call.val)
    ELSE IF a.fn \in {"fset", "__setitem__"} THEN Yield(None)
    ELSE Returned(ToApi(EventPropertyCommands(a.name).type_, call.val))

\* ------------------------------------------------------------------------
\* The simulated devices (tests/protocol_simdev.py, test_mps112.py,
\* test_dvs304.py)
\* ------------------------------------------------------------------------
\* a handler returning: the line written and the state of the device
Replied(state, line) == [dev |-> state, line |-> line]

\* a handler raising a SISError: "E{0}".format(e.code) is written
Refused(state, code) == Replied(state, << "E" >> \o FormatD(code))

\* re.match of ^<lit>$
Exactly(cmd, lit) == BeforeDollar(cmd) = lit

\* re.match of ^(\d+)<suffix>$, d1 being the number of leading digits
Numbered(cmd, d1, suffix) == d1 > 0 /\ Drop(BeforeDollar(cmd), d1) = suffix

\* re.match of ^(\d+)\*(\d+)<suffix>$, m being the match of (\d+)\*(\d+)
Starred(cmd, m, suffix) ==
    ~IsNone(m) /\ BeforeDollar(cmd) = Val(m)[1] \o << "*" >> \o Val(m)[2] \o suffix

\* re.match of ^<prefix>(\d+)<suffix>$
Prefixed(cmd, prefix, suffix) ==
    /\ StartsWith(cmd, prefix)
    /\ Numbered(Drop(cmd, Len(prefix)), LeadingDigits(Drop(cmd, Len(prefix))), suffix)

\* the number the group of Prefixed captured
PrefixedNumber(cmd, prefix) ==
    NatOf(SubSeq(cmd, Len(prefix) + 1,
                 Len(prefix) + LeadingDigits(Drop(cmd, Len(prefix)))))

\* the character ESC
ESCAPE == ""

\* SimulatedMPS112.__init__ and reset: the state of a new device
SimulatedMPS112_reset ==
    [sim |-> "mps112", part_number |-> EXTRON_MPS_112,
     mode |-> 1, single_input |-> 0,
     separate_input |-> << 1, 1, 1 >>, audio_group |-> 1, audio_input |-> 0,
     main_volume |-> 70, mic_volume |-> 0, exec_mode |-> 0, mic_thresh |-> 8,
     follow_sub_mode |-> 0, mic_power |-> 0, ducking_level |-> 6,
     audio_mute |-> 0, mic_on |-> 0]

\* SimulatedMPS112.select_separate
select_separate(state, group, input) ==
    IF group < 1 \/ group > 3 \/ input < 0 \/ input > 4 THEN Refused(state, 13)
    ELSE Replied(IF state.mode = 1
                 THEN [state EXCEPT !.single_input = input]
                 ELSE [state EXCEPT !.separate_input[group] = input,
                                    !.audio_group = group,
                                    !.audio_input = input],
                 << "C", "h", "n" >> \o FormatD(group) \o << "*" >> \o FormatD(input))

\* SimulatedMPS112.select_single
select_single(state, input) ==
    IF input < 0 \/ input > 12 THEN Refused(state, 13)
    ELSE IF state.mode = 2 THEN Refused(state, 1)
    ELSE Replied([state EXCEPT !.single_input = input],
                 << "C", "h", "n" >> \o FormatD(input))

\* SimulatedMPS112.set_volume
set_volume(state, volume) ==
    IF volume < 0 \/ volume > 100 THEN Refused(state, 13)
    ELSE Replied([state EXCEPT !.main_volume = volume],
                 << "V", "o", "l" >> \o FormatD(volume))

\* SimulatedMPS112.set_audio_mute
set_audio_mute(state, audio_mute) ==
    IF audio_mute < 0 \/ audio_mute > 1 THEN Refused(state, 13)
    ELSE Replied([state EXCEPT !.audio_mute = audio_mute],
                 << "A", "m", "t" >> \o FormatD(audio_mute))

\* SimulatedMPS112.set_exec_mode
set_exec_mode(state, exec_mode) ==
    IF exec_mode < 0 \/ exec_mode > 3 THEN Refused(state, 13)
    ELSE Replied([state EXCEPT !.exec_mode = exec_mode],
                 << "E", "x", "e" >> \o FormatD(exec_mode))

\* SimulatedMPS112.set_mic_gain
set_mic_gain(state, mic_gain) ==
    IF mic_gain < 0 \/ mic_gain > 12 THEN Refused(state, 13)
    ELSE Replied([state EXCEPT !.mic_volume = mic_gain],
                 << "A", "u", "d", "+" >> \o FormatD(mic_gain))

\* SimulatedMPS112.set_mic_attenuation
set_mic_attenuation(state, mic_att) ==
    IF mic_att < 1 \/ mic_att > 66 THEN Refused(state, 13)
    ELSE Replied([state EXCEPT !.mic_volume = 0 - mic_att],
                 << "A", "u", "d", "-" >> \o FormatD(mic_att))

\* SimulatedMPS112.set_mic
set_mic(state, mic_on) ==
    IF mic_on < 0 \/ mic_on > 1 THEN Refused(state, 13)
    ELSE Replied([state EXCEPT !.mic_on = mic_on],
                 << "M", "i", "x" >> \o FormatD(mic_on))

\* SimulatedMPS112.get_info
get_info(state) ==
    IF state.mode = 1
    THEN IF state.single_input > 0
         THEN StatusLine(state.mode,
                  IF (state.single_input - 1) \div 4 = 0
                  THEN ((state.single_input - 1) % 4) + 1 ELSE 0,
                  IF (state.single_input - 1) \div 4 = 1
                  THEN ((state.single_input - 1) % 4) + 1 ELSE 0,
                  IF (state.single_input - 1) \div 4 = 2
                  THEN ((state.single_input - 1) % 4) + 1 ELSE 0,
                  ((state.single_input - 1) \div 4) + 1,
                  ((state.single_input - 1) % 4) + 1)
         ELSE StatusLine(state.mode, 0, 0, 0, 1, 0)
    ELSE StatusLine(state.mode, state.separate_input[1], state.separate_input[2],
                    state.separate_input[3], state.audio_group, state.audio_input)

\* SimulatedMPS112.set_switcher_mode
set_switcher_mode(state, mode) ==
    IF mode < 1 \/ mode > 2 THEN Refused(state, 13)
    ELSE Replied([state EXCEPT !.mode = mode], << "M", "o", "d" >> \o FormatD(mode))

\* SimulatedMPS112.set_mic_thresh
set_mic_thresh(state, thresh) ==
    IF thresh < 0 \/ thresh > 15 THEN Refused(state, 13)
    ELSE Replied([state EXCEPT !.mic_thresh = thresh],
                 << "T", "h", "r" >> \o FormatD(thresh))

\* the handlers of SimulatedMPS112 from ^(\d+)[Xx]$ on, in the order of the
\* handler list; reset keeps the part number, which __init__ sets
SimulatedMPS112Rest(state, cmd, d1) ==
    IF Numbered(cmd, d1, << "X" >>) \/ Numbered(cmd, d1, << "x" >>)
    THEN set_exec_mode(state, NatOf(SubSeq(cmd, 1, d1)))
    ELSE IF Exactly(cmd, << ESCAPE, "Z", "X", "X", "X" >>)
    THEN Replied([SimulatedMPS112_reset EXCEPT !.part_number = state.part_number],
                 << "Z", "p", "x" >>)
    ELSE IF Exactly(cmd, << "I" >>) \/ Exactly(cmd, << "i" >>)
    THEN Replied(state, get_info(state))
    ELSE IF Numbered(cmd, d1, << "*", "1", "#" >>)
    THEN set_switcher_mode(state, NatOf(SubSeq(cmd, 1, d1)))
    ELSE IF Exactly(cmd, << "1", "#" >>) THEN Replied(state, FormatD(state.mode))
    ELSE IF Numbered(cmd, d1, << "*", "2", "#" >>)
    THEN set_mic_thresh(state, NatOf(SubSeq(cmd, 1, d1)))
    ELSE IF Exactly(cmd, << "2", "#" >>) THEN Replied(state, FormatD(state.mic_thresh))
    ELSE Replied(state, << "E", "1", "0" >>)

\* the handlers of SimulatedMPS112 from ^[Qq]$ to ^[Mm]$
SimulatedMPS112Mic(state, cmd, d1) ==
    IF Exactly(cmd, << "Q" >>) \/ Exactly(cmd, << "q" >>)
    THEN Replied(state, << "1", ".", "0", "2" >>)
    ELSE IF Prefixed(cmd, << "1", "6", "*" >>, << "G" >>)
    THEN set_mic_gain(state, PrefixedNumber(cmd, << "1", "6", "*" >>))
    ELSE IF Prefixed(cmd, << "1", "6", "*" >>, << "g" >>)
    THEN set_mic_attenuation(state, PrefixedNumber(cmd, << "1", "6", "*" >>))
    ELSE IF StartsWith(cmd, << "1", "6", "G" >>) \/ StartsWith(cmd, << "1", "6", "g" >>)
    THEN Replied(state, FormatD(state.mic_volume))
    ELSE IF Numbered(cmd, d1, << "M" >>) \/ Numbered(cmd, d1, << "m" >>)
    THEN set_mic(state, NatOf(SubSeq(cmd, 1, d1)))
    ELSE IF Exactly(cmd, << "M" >>) \/ Exactly(cmd, << "m" >>)
    THEN Replied(state, FormatD(state.mic_on))
    ELSE SimulatedMPS112Rest(state, cmd, d1)

\* SimulatedDevice.process_write with the handlers of SimulatedDevice and
\* SimulatedMPS112, in the order of the handler list: the first pattern
\* that matches decides; d1 is the number of leading digits of cmd, m the
\* match of (\d+)\*(\d+)
SimulatedMPS112(state, cmd, d1, m) ==
    IF Exactly(cmd, << "N" >>) \/ Exactly(cmd, << "n" >>)
    THEN Replied(state, state.part_number)
    ELSE IF Starred(cmd, m, << "!" >>)
    THEN select_separate(state, NatOf(Val(m)[1]), NatOf(Val(m)[2]))
    ELSE IF d1 > 0 /\ d1 < Len(cmd) /\ cmd[d1 + 1] = "!"
    THEN select_single(state, NatOf(SubSeq(cmd, 1, d1)))
    ELSE IF Numbered(cmd, d1, << "V" >>)
    THEN set_volume(state, NatOf(SubSeq(cmd, 1, d1)))
    ELSE IF Exactly(cmd, << "V" >>) THEN Replied(state, FormatD(state.main_volume))
    ELSE IF Numbered(cmd, d1, << "Z" >>) \/ Numbered(cmd, d1, << "z" >>)
    THEN set_audio_mute(state, NatOf(SubSeq(cmd, 1, d1)))
    ELSE IF Exactly(cmd, << "Z" >>) \/ Exactly(cmd, << "z" >>)
    THEN Replied(state, FormatD(state.audio_mute))
    ELSE IF Exactly(cmd, << "X" >>) \/ Exactly(cmd, << "x" >>)
    THEN Replied(state, FormatD(state.exec_mode))
    ELSE SimulatedMPS112Mic(state, cmd, d1)

\* SimulatedDVS304.__init__ and reset: the state of a new device
SimulatedDVS304_reset ==
    [sim |-> "dvs304", part_number |-> EXTRON_DVS_304,
     video_input |-> 1, audio_input |-> 1,
     input_format |-> << 1, 2, 2, 8 >>, color |-> 64,
     output_rate |-> 1, output_resolution |-> 2]

\* _get_supported_output_combination_list(): the (resolution, rate) codes
\* the device accepts
_VALID_OUTPUT_COMBINATIONS ==
    {<< x, 1 >> : x \in (1..22) \ {15, 20, 21}}
    \cup {<< x, 2 >> : x \in (1..25) \ {16}}
    \cup {<< x, 3 >> : x \in (1..12) \ {3, 11}}
    \cup {<< 20, 3 >>, << 19, 3 >>}
    \cup {<< x, 4 >> : x \in {1, 2, 4, 5, 7}}
    \cup {<< x, 5 >> : x \in {1, 2, 16}}
    \cup {<< x, 6 >> : x \in {1, 2}}
    \cup {<< x, 7 >> : x \in {15, 17, 18, 19}}

\* SimulatedDVS304._check_input_number: the code of the SISError it
\* raises, 0 when it raises none
_check_input_number(value) ==
    IF value < 0 THEN 13 ELSE IF value > 4 THEN 1 ELSE 0

\* SimulatedDVS304.set_both_input: _check_input_number refuses the number
\* before either input is changed
set_both_input(state, value) ==
    IF _check_input_number(value) # 0 THEN Refused(state, _check_input_number(value))
    ELSE Replied([state EXCEPT !.video_input = value, !.audio_input = value],
                 << "I", "n" >> \o FormatD(value) \o << " ", "A", "l", "l" >>)

\* SimulatedDVS304.set_video_input
set_video_input(state, value) ==
    IF _check_input_number(value) # 0 THEN Refused(state, _check_input_number(value))
    ELSE Replied([state EXCEPT !.video_input = value],
                 << "I", "n" >> \o FormatD(value) \o << " ", "R", "G", "B" >>)

\* SimulatedDVS304.set_audio_input
set_audio_input(state, value) ==
    IF _check_input_number(value) # 0 THEN Refused(state, _check_input_number(value))
    ELSE Replied([state EXCEPT !.audio_input = value],
                 << "I", "n" >> \o FormatD(value) \o << " ", "A", "u", "d" >>)

\* SimulatedDVS304.set_video_format
set_video_format(state, index, value) ==
    IF _check_input_number(index) # 0 THEN Refused(state, _check_input_number(index))
    ELSE IF \/ index = 1 /\ value \notin {1, 9}
            \/ index = 2 /\ value \notin {1, 2, 4, 5, 8, 9}
            \/ index = 3 /\ value \notin {2, 9}
            \/ index = 4 /\ value \notin 1..9
    THEN Refused(state, 13)
    ELSE Replied([state EXCEPT !.input_format[IF index = 0 THEN 4 ELSE index] = value],
                 FormatD(index) \o << "T", "y", "p" >> \o FormatD(value))

\* SimulatedDVS304.get_video_format
get_video_format(state, index) ==
    IF _check_input_number(index) # 0 THEN Refused(state, _check_input_number(index))
    ELSE Replied(state, FormatD(state.input_format[IF index = 0 THEN 4 ELSE index]))

\* SimulatedDVS304.set_output_rate
set_output_rate(state, res_, rate) ==
    IF << res_, rate >> \notin _VALID_OUTPUT_COMBINATIONS THEN Refused(state, 13)
    ELSE Replied([state EXCEPT !.output_resolution = res_, !.output_rate = rate],
                 << "R", "t", "e" >> \o Format02d(res_) \o << "*" >> \o Format02d(rate))

\* the handlers of SimulatedDVS304 from ^(\d+)\*(\d+)\\$ on
SimulatedDVS304Rest(state, cmd, d1, m) ==
    IF Starred(cmd, m, << "\\" >>)
    THEN set_video_format(state, NatOf(Val(m)[1]), NatOf(Val(m)[2]))
    ELSE IF Numbered(cmd, d1, << "\\" >>)
    THEN get_video_format(state, NatOf(SubSeq(cmd, 1, d1)))
    ELSE IF Numbered(cmd, d1, << "C" >>)
    THEN Replied([state EXCEPT !.color = NatOf(SubSeq(cmd, 1, d1))],
                 << "C", "o", "l" >> \o FormatD(NatOf(SubSeq(cmd, 1, d1))))
    ELSE IF Exactly(cmd, << "C" >>) THEN Replied(state, FormatD(state.color))
    ELSE IF Starred(cmd, m, << "=" >>)
    THEN set_output_rate(state, NatOf(Val(m)[1]), NatOf(Val(m)[2]))
    ELSE IF Exactly(cmd, << "=" >>)
    THEN Replied(state, Format02d(state.output_resolution) \o << "*" >>
                        \o Format02d(state.output_rate))
    ELSE IF Exactly(cmd, << "2", "0", "S" >>)
    THEN Replied(state, << "4", "5", ".", "5" >>)
    ELSE Replied(state, << "E", "1", "0" >>)

\* SimulatedDevice.process_write with the handlers of SimulatedDevice and
\* SimulatedDVS304, in the order of the handler list
SimulatedDVS304(state, cmd, d1, m) ==
    IF Exactly(cmd, << "N" >>) \/ Exactly(cmd, << "n" >>)
    THEN Replied(state, state.part_number)
    ELSE IF Numbered(cmd, d1, << "!" >>)
    THEN set_both_input(state, NatOf(SubSeq(cmd, 1, d1)))
    ELSE IF Numbered(cmd, d1, << "&" >>)
    THEN set_video_input(state, NatOf(SubSeq(cmd, 1, d1)))
    ELSE IF Numbered(cmd, d1, << "$" >>)
    THEN set_audio_input(state, NatOf(SubSeq(cmd, 1, d1)))
    ELSE IF Exactly(cmd, << "!" >>) \/ Exactly(cmd, << "&" >>)
    THEN Replied(state, FormatD(state.video_input))
    ELSE IF Exactly(cmd, << "$" >>) THEN Replied(state, FormatD(state.audio_input))
    ELSE SimulatedDVS304Rest(state, cmd, d1, m)

\* SimulatedDevice.process_write: the command is matched against the
\* handlers of the device
process_write(state, cmd) ==
    IF state.sim = "mps112"
    THEN SimulatedMPS112(state, cmd, LeadingDigits(cmd), RateMatch(cmd))
    ELSE SimulatedDVS304(state, cmd, LeadingDigits(cmd), RateMatch(cmd))

\* ------------------------------------------------------------------------
\* A client accessing properties, with a simulated device answering
\* ------------------------------------------------------------------------
\* a simulated device in the given state is attached and the client has
\* accessed nothing
Attached(state) ==
    /\ dev = Some(state)
    /\ access = None
    /\ accessed = << >>

\* a completed access: the request it passed to make_request (None when it
\* raised before) and what it gave its caller
Accessed(a, request, result) == [access |-> a, request |-> request, result |-> result]

\* the client calls accessor a, r being the request of the accessor or the
\* exception raised before the request: with a request the accessor enters
\* make_request (line 85)
AccessCalled(a, r) ==
    IF r.exc # ""
    THEN /\ accessed' = Append(accessed, Accessed(a, None, r))
         /\ UNCHANGED << access, session, pc, cur >>
    ELSE IF r = NoRequest
    THEN /\ accessed' = Append(accessed,
                           Accessed(a, None, Yield(Some(_ArrayEventProperty(a.name)))))
         /\ UNCHANGED << access, session, pc, cur >>
    ELSE /\ access' = Some(a)
         /\ Entered(1, r.val)
         /\ UNCHANGED << accessed, _line_handler_event, _response, _response_exception >>

AccessCall(a) ==
    /\ IsNone(access)
    /\ pc[1] = "idle"
    /\ Len(accessed) < MaxAccesses
    /\ AccessCalled(a, AccessRequest(a))
    /\ UNCHANGED << link, probe, dev, _listeners, written, sent, wire, done, rpc,
                    rline, delivered, log >>

\* make_request has ended: the accessor returns or raises
AccessReturn ==
    /\ ~IsNone(access)
    /\ pc[1] = "idle"
    /\ accessed' = Append(accessed,
                      Accessed(Val(access), Some(done[1][Len(done[1])].req),
                               AccessResult(Val(access), done[1][Len(done[1])])))
    /\ access' = None
    /\ UNCHANGED << link, probe, dev, session, _listeners, written, sent, wire, pc, cur,
                    done, rpc, rline, delivered, log >>

\* the simulated device has read a command, r being what process_write
\* makes of it: the device writes its line
DeviceAnswered(r) ==
    /\ dut_read' = dut_read + 1
    /\ dev' = Some(r.dev)
    /\ sent' = Append(sent, r.line)
    /\ wire' = Append(wire, r.line)

\* the simulated device answers the command written last
DeviceAnswer ==
    /\ ~IsNone(dev)
    /\ dut_read < Len(written)
    /\ DeviceAnswered(process_write(Val(dev), Decode(written[dut_read + 1])))
    /\ UNCHANGED << opened, probe, access, accessed, session, _listeners, written, pc,
                    cur, done, rpc, rline, delivered, log >>

\* ------------------------------------------------------------------------
\* Specifications
\* ------------------------------------------------------------------------
\* the steps of a make_request whose write succeeds and whose wait ends
\* with the event set: the transport works and the reply comes in time
MakeRequestAnswered(c, requests) ==
    \/ \E request \in requests : MakeRequestEnter(c, request)
    \/ MakeRequestWrite(c)
    \/ MakeRequestWaitSignalled(c)
    \/ MakeRequestClear(c)
    \/ MakeRequestUnflag(c)
    \/ MakeRequestException(c)
    \/ MakeRequestFetch(c)
    \/ MakeRequestRaise(c)
    \/ MakeRequestNoException(c)
    \/ MakeRequestReturn(c)

\* the steps of a make_request whose write succeeds
MakeRequestWritten(c, requests) ==
    \/ MakeRequestAnswered(c, requests)
    \/ MakeRequestWaitTimeout(c)

\* make_request, lines 83-95: every step of it
MakeRequestStep(c, requests) ==
    \/ MakeRequestWritten(c, requests)
    \/ MakeRequestWriteRaises(c)

\* handle_line, lines 63-74: every step of it
HandleLineStep ==
    \/ HandleLineReply
    \/ HandleLineException
    \/ HandleLineResponse
    \/ HandleLineSet
    \/ HandleLineEvent
    \/ HandleLineUnexpected
    \/ HandleLineRaises

\* one caller, the reader, one listener registered for volume events at
\* some time, and a device that sends any line at any time
Next ==
    \/ MakeRequestWritten(1, {<< "V" >>})
    \/ HandleLineReply
    \/ HandleLineException
    \/ HandleLineResponse
    \/ HandleLineSet
    \/ HandleLineEvent
    \/ HandleLineUnexpected
    \/ (_listeners = << >> /\ add_event_listener("volume", "Stop"))
    \/ \E line \in DeviceLines : DeviceSend(line)

Spec == Init /\ [][Next]_vars

\* one caller without timeouts, the reader and a device that answers each
\* command with one line and sends nothing else
NextSeq ==
    \/ MakeRequestAnswered(1, Requests)
    \/ HandleLineReply
    \/ HandleLineException
    \/ HandleLineResponse
    \/ HandleLineSet
    \/ \E line \in ReplyLines : DeviceReply(line)

SpecSeq == Init /\ [][NextSeq]_vars

\* one caller without timeouts, the reader, and a device that answers each
\* command with one line and also sends volume notifications of its own
\* (tests/test_mps112.py, test_mps112_test_volume_notifications): a command
\* is answered however many lines the device has sent before
NextNotified ==
    \/ MakeRequestAnswered(1, {<< "V" >>})
    \/ HandleLineReply
    \/ HandleLineException
    \/ HandleLineResponse
    \/ HandleLineSet
    \/ HandleLineEvent
    \/ \E line \in {Vol40} : DeviceSend(line)
    \/ \E line \in {Vol7, E13} : DeviceReply(line)

SpecNotified == Init /\ [][NextNotified]_vars

\* a command waits at the device although the device has sent as many
\* lines as commands were written
CommandWaitsAfterNotification == dut_read < Len(written) /\ Len(sent) >= Len(written)

\* no caller inside make_request: the reader, listeners being registered
\* and a device that sends notification lines at any time
NextEvt ==
    \/ HandleLineEvent
    \/ HandleLineUnexpected
    \/ HandleLineRaises
    \/ \E name \in ListenerNames, cb \in Callbacks : add_event_listener(name, cb)
    \/ \E line \in EventLines : DeviceSend(line)

SpecEvt == Init /\ [][NextEvt]_vars

\* a session of the class with two descriptors for one notification line
InitOverlap ==
    /\ InitSession
    /\ Connected("OverlappingProtocol")
    /\ NoProbe
    /\ NoClient

\* the lines its device sends and the names its listeners are registered
\* under
OverlapLines == {Vol40, Mix0, Zpx}
OverlapListenerNames == {"*", "gain", "volume"}
OverlapCallbacks == {"Stop", "Pass"}

\* the reader, listeners being registered and the device sending lines
NextOverlap ==
    \/ HandleLineEvent
    \/ HandleLineUnexpected
    \/ \E name \in OverlapListenerNames, cb \in OverlapCallbacks :
          add_event_listener(name, cb)
    \/ \E line \in OverlapLines : DeviceSend(line)

SpecOverlap == InitOverlap /\ [][NextOverlap]_vars

\* the value converters of the library and of the two vocabularies, by name
ConverterNames ==
    {"_INT_VALUE_CONVERTER", "_BOOL_VALUE_CONVERTER", "_EXECUTIVE_MODE",
     "_SWITCHER_MODE", "_INPUT_VIDEO_FORMAT", "_INPUT_STANDARD",
     "_OUTPUT_RESOLUTION", "_OUTPUT_REFRESH_RATE", "_TEST_PATTERN"}

ConverterNamed(name) ==
    CASE name = "_INT_VALUE_CONVERTER" -> _INT_VALUE_CONVERTER
      [] name = "_BOOL_VALUE_CONVERTER" -> _BOOL_VALUE_CONVERTER
      [] name = "_EXECUTIVE_MODE" -> _EXECUTIVE_MODE
      [] name = "_SWITCHER_MODE" -> _SWITCHER_MODE
      [] name = "_INPUT_VIDEO_FORMAT" -> _INPUT_VIDEO_FORMAT
      [] name = "_INPUT_STANDARD" -> _INPUT_STANDARD
      [] name = "_OUTPUT_RESOLUTION" -> _OUTPUT_RESOLUTION
      [] name = "_OUTPUT_REFRESH_RATE" -> _OUTPUT_REFRESH_RATE
      [] name = "_TEST_PATTERN" -> _TEST_PATTERN

\* the API values a converter is declared for: the non-negative integers,
\* both booleans, the values of an enumerated table
ConverterDomain(conv) ==
    CASE conv.kind = "int" -> {PyInt(n) : n \in 0..MaxInt}
      [] conv.kind = "bool" -> {PyBool(FALSE), PyBool(TRUE)}
      [] conv.kind = "enum" -> {conv.mapping[i][2] : i \in 1..Len(conv.mapping)}

\* to_api(to_raw(x))
RoundTrip(conv, x) ==
    LET raw == ToRaw(conv, x) IN
    IF raw.exc # "" THEN raw ELSE ToApi(conv, Some(raw.val))

\* a converter and a value of its domain are chosen
InitConv ==
    /\ InitSession
    /\ Connected("ExtronProtocol")
    /\ \E name \in ConverterNames : \E x \in ConverterDomain(ConverterNamed(name)) :
          arg = Some([conv |-> name, x |-> x])
    /\ res = None
    /\ NoClient

\* the value is converted to its raw form and back
ApplyRoundTrip ==
    /\ res = None
    /\ res' = Some(RoundTrip(ConverterNamed(Val(arg).conv), Val(arg).x))
    /\ UNCHANGED << session, _listeners, written, sent, wire, pc, cur, done,
                    rpc, rline, delivered, log, link, arg, client >>

NextConv == ApplyRoundTrip

SpecConv == InitConv /\ [][NextConv]_vars

\* a device is opened, with or without a part number; once the session is
\* there one caller asks it for the part number, and the device answers
\* each N with its part number
NextOpen ==
    \/ HandshakeWrite
    \/ \E data \in SerialRead : HandshakeRead(data)
    \/ DeviceEmitByte
    \/ (hpc \in {"none", "done"} /\ MakeRequestAnswered(1, {<< "N" >>}))
    \/ HandleLineReply
    \/ HandleLineException
    \/ HandleLineResponse
    \/ HandleLineSet
    \/ (hpc \in {"none", "done"} /\ DeviceReply(Val(arg).serial_uri))

SpecOpen == InitOpen /\ [][NextOpen]_vars

\* a DVS 304 opened with its part number given
InitDvs ==
    /\ InitSession
    /\ Connected("ExtronDVS304Protocol")
    /\ NoProbe
    /\ NoClient

\* a DVS 304 session with no caller inside make_request: the reader,
\* listeners being registered and a device that sends lines at any time
NextDvs ==
    \/ HandleLineEvent
    \/ HandleLineUnexpected
    \/ HandleLineRaises
    \/ \E name \in DvsListenerNames, cb \in DvsCallbacks : add_event_listener(name, cb)
    \/ \E line \in DvsEventLines : DeviceSend(line)

SpecDvs == InitDvs /\ [][NextDvs]_vars

\* two callers, the reader and a device that answers each command with one
\* line and sends nothing else
NextTwo ==
    \/ \E c \in Callers : (done[c] = << >> /\ MakeRequestAnswered(c, {<< "V" >>}))
    \/ \E c \in Callers : MakeRequestWaitTimeout(c)
    \/ HandleLineReply
    \/ HandleLineException
    \/ HandleLineResponse
    \/ HandleLineSet
    \/ \E line \in DeviceLines : DeviceReply(line)

SpecTwo == Init /\ [][NextTwo]_vars

\* one client accessing the properties of the set accesses one after the
\* other, the reader and a simulated device that answers each command
Accessing(accesses) ==
    \/ \E a \in accesses : AccessCall(a)
    \/ MakeRequestWrite(1)
    \/ MakeRequestWaitSignalled(1)
    \/ MakeRequestClear(1)
    \/ MakeRequestUnflag(1)
    \/ MakeRequestException(1)
    \/ MakeRequestFetch(1)
    \/ MakeRequestRaise(1)
    \/ MakeRequestNoException(1)
    \/ MakeRequestReturn(1)
    \/ HandleLineReply
    \/ HandleLineException
    \/ HandleLineResponse
    \/ HandleLineSet
    \/ DeviceAnswer
    \/ AccessReturn

\* an MPS 112 session with a simulated MPS 112, in either switcher mode
InitMps ==
    /\ InitSession
    /\ Connected("ExtronMPS112Protocol")
    /\ NoProbe
    /\ \E mode \in {1, 2} : Attached([SimulatedMPS112_reset EXCEPT !.mode = mode])

\* a DVS 304 session with a simulated DVS 304
InitDvsSim ==
    /\ InitSession
    /\ Connected("ExtronDVS304Protocol")
    /\ NoProbe
    /\ Attached(SimulatedDVS304_reset)

\* the scalar accesses of the client of an MPS 112: volume and mic_mute are
\* read and set, volume also to a value the device refuses
ScalarAccesses ==
    {Access("fget", name, 0, None) : name \in {"volume", "mic_mute"}}
    \cup {Access("fset", "volume", 0, Some(PyInt(n))) : n \in {5, 101}}
    \cup {Access("fset", "mic_mute", 0, Some(PyBool(b))) : b \in BOOLEAN}

NextScalar == Accessing(ScalarAccesses)

SpecScalar == InitMps /\ [][NextScalar]_vars

\* the indexed accesses of the client of a DVS 304: elements of
\* video_input_format are read and set, also at an index outside the
\* indices and to a format the device refuses for the input
IndexedAccesses ==
    {Access("__getitem__", "video_input_format", i, None) : i \in {1, 2, 5}}
    \cup {Access("__setitem__", "video_input_format", i, Some(PyEnum(v))) :
             i \in {1, 2, 5},
             v \in {"InputVideoFormat.CVBS", "InputVideoFormat.SVIDEO"}}

NextIndexed == Accessing(IndexedAccesses)

SpecIndexed == InitDvsSim /\ [][NextIndexed]_vars

\* the accesses of the client of a DVS 304 to output_rate: it is read, and
\* set to pairs the device accepts (640x480 at 60, 1080p at 24), to a pair
\* with codes that the device refuses (480p at 50), to a rate without a
\* code (24 at 640x480) and to a resolution without a code (123x456)
RateAccesses ==
    {Access("fget", "output_rate", 0, None)}
    \cup {Access("fset", "output_rate", 0, Some(PyTuple(p[1], PyFloat(p[2])))) :
             p \in {<< Resolution("640x480", 640, 480), 6000 >>,
                    << Resolution("1080p", 1920, 1080), 2400 >>,
                    << Resolution("480p", 720, 480), 5000 >>,
                    << Resolution("640x480", 640, 480), 2400 >>,
                    << Resolution("123x456", 123, 456), 6000 >>}}

NextRate == Accessing(RateAccesses)

SpecRate == InitDvsSim /\ [][NextRate]_vars

\* the wire form of a (resolution code, rate code) combination, as the
\* device writes it
WireForm(codes) == Format02d(codes[1]) \o << "*" >> \o Format02d(codes[2])

\* to_raw(to_api(w)), api being to_api(w)
RawOfApi(conv, api) == IF api.exc # "" THEN api ELSE ToRaw(conv, api.val)

\* to_api(to_raw(p)), api being the outcome of the to_api that gave p
ApiOfRaw(conv, api) == IF api.exc # "" THEN api ELSE RoundTrip(conv, api.val)

\* a combination of a resolution code and a rate code is chosen
InitRateConv ==
    /\ InitSession
    /\ Connected("ExtronProtocol")
    /\ arg \in {Some(<< x, r >>) : x \in 1..25, r \in 1..7}
    /\ res = None
    /\ NoClient

\* the output-rate converter is applied to the wire form of the
\* combination, and to the results in both directions
ConvertRate ==
    /\ res = None
    /\ res' = Some([api |-> ToApi(_OUTPUT_RESOLUTION_AND_REFRESH, Some(WireForm(Val(arg)))),
                    raw |-> RawOfApi(_OUTPUT_RESOLUTION_AND_REFRESH,
                               ToApi(_OUTPUT_RESOLUTION_AND_REFRESH, Some(WireForm(Val(arg))))),
                    back |-> ApiOfRaw(_OUTPUT_RESOLUTION_AND_REFRESH,
                               ToApi(_OUTPUT_RESOLUTION_AND_REFRESH, Some(WireForm(Val(arg)))))])
    /\ UNCHANGED << session, _listeners, written, sent, wire, pc, cur, done, rpc,
                    rline, delivered, log, link, arg, client >>

NextRateConv == ConvertRate

SpecRateConv == InitRateConv /\ [][NextRateConv]_vars

\* the accesses of the client of an MPS 112 to input: it is read, which
\* gives the client a _SwitchInputProperty, it is set to 5 and its element 2
\* to 3, and once the client holds a _SwitchInputProperty it reads elements
\* 1 and 2 through it
InputAccesses ==
    {Access("fget", "input", 0, None),
     Access("fset", "input", 0, Some(PyInt(5))),
     Access("__setitem__", "input", 2, Some(PyInt(3)))}
    \cup (IF \E k \in 1..Len(accessed) : /\ accessed[k].access.fn = "fget"
                                         /\ accessed[k].result.exc = ""
          THEN {Access("__getitem__", "input", g, None) : g \in {1, 2}}
          ELSE {})

NextInput == Accessing(InputAccesses)

SpecInput == InitMps /\ [][NextInput]_vars

\* a group and an index are chosen
InitFlat ==
    /\ InitSession
    /\ Connected("ExtronProtocol")
    /\ arg \in {Some(<< group, index >>) : group \in 0..MaxGroup, index \in 0..MaxIndex}
    /\ res = None
    /\ NoClient

\* _separate_to_single_input is applied to them
Flatten ==
    /\ res = None
    /\ res' = Some(PyInt(_separate_to_single_input(Val(arg)[1], Val(arg)[2])))
    /\ UNCHANGED << session, _listeners, written, sent, wire, pc, cur, done, rpc,
                    rline, delivered, log, link, arg, client >>

NextFlat == Flatten

SpecFlat == InitFlat /\ [][NextFlat]_vars

\* the accesses of a client whose device may be slow: on an MPS 112 volume
\* and mic_mute are read and volume is set, on a DVS 304 color and an element
\* of video_input_format are read
SlowAccesses ==
    IF Len(accessed) >= MaxSlowAccesses THEN {}
    ELSE IF protocol = "ExtronMPS112Protocol"
    THEN {Access("fget", name, 0, None) : name \in {"volume", "mic_mute"}}
         \cup {Access("fset", "volume", 0, Some(PyInt(5)))}
    ELSE {Access("fget", "color", 0, None),
          Access("__getitem__", "video_input_format", 1, None)}

\* a session of either device class with its simulated device
InitSlow ==
    /\ InitSession
    /\ NoProbe
    /\ \/ Connected("ExtronMPS112Protocol") /\ Attached(SimulatedMPS112_reset)
       \/ Connected("ExtronDVS304Protocol") /\ Attached(SimulatedDVS304_reset)

\* the client, the reader and a device that answers each command, in time or
\* after the wait of make_request has timed out
NextSlow ==
    \/ Accessing(SlowAccesses)
    \/ MakeRequestWaitTimeout(1)
    \/ HandleLineEvent
    \/ HandleLineUnexpected

SpecSlow == InitSlow /\ [][NextSlow]_vars

\* the error replies E<digits> with up to MaxCodeDigits digits
ErrorReplies ==
    {<< "E" >> \o << Digits[a] >> : a \in 1..10}
    \cup {<< "E" >> \o << Digits[a], Digits[b] >> : a \in 1..10, b \in 1..10}

\* an error reply to decode
InitErr ==
    /\ InitSession
    /\ Connected("ExtronProtocol")
    /\ arg \in {Some(line) : line \in {e \in ErrorReplies : Len(e) <= MaxCodeDigits + 1}}
    /\ res = None
    /\ NoClient

\* exception_from_error_code is applied to it
DecodeError ==
    /\ res = None
    /\ res' = Some(exception_from_error_code(Val(arg)))
    /\ UNCHANGED << session, _listeners, written, sent, wire, pc, cur, done, rpc,
                    rline, delivered, log, link, arg, client >>

NextErr == DecodeError

SpecErr == InitErr /\ [][NextErr]_vars

\* a client that adds and removes listeners of a new MPS 112 session; arg
\* is the journal of its calls
InitReg ==
    /\ Init
    /\ arg = << >>

RegistryNames == {"*", "volume"}
RegistryCallbacks == {"Stop", "Pass"}

NextReg ==
    \/ \E name \in RegistryNames, cb \in RegistryCallbacks : AddListenerCall(name, cb)
    \/ \E name \in RegistryNames, cb \in RegistryCallbacks : RemoveListenerCall(name, cb)

SpecReg == InitReg /\ [][NextReg]_vars

\* the lines the device sends to the session on a failing transport: those
\* of Spec and one on which a matcher raises
WriteFailLines == DeviceLines \cup {Exe7}

\* the session of Spec on a transport whose write may raise, with a device
\* that also sends a line on which a matcher raises
NextWriteFail ==
    \/ MakeRequestStep(1, {<< "V" >>})
    \/ HandleLineStep
    \/ (_listeners = << >> /\ add_event_listener("volume", "Stop"))
    \/ \E line \in WriteFailLines : DeviceSend(line)

SpecWriteFail == Init /\ [][NextWriteFail]_vars

\* the reader, a device sending notification lines and listeners that may
\* remove their own registration when called: RemoveSelf calls
\* remove_event_listener with the name and the callable it was registered
\* with, and returns None
ChangingCallbacks == {"Pass", "Stop", "RemoveSelf"}
ChangingLines == {Vol40, Mix0, Zpx}

NextChange ==
    \/ HandleLineEventListenersChange
    \/ HandleLineUnexpected
    \/ \E name \in ListenerNames, cb \in ChangingCallbacks : add_event_listener(name, cb)
    \/ \E line \in ChangingLines : DeviceSend(line)

SpecChange == Init /\ [][NextChange]_vars

\* the lines the device sends to a session whose listener makes requests
RequestingLines == {Vol40, E13}

\* a caller thread, the reader, a listener for volume that calls
\* make_request when invoked, and a device that sends lines at any time
NextRequesting ==
    \/ MakeRequestWritten(1, {<< "V" >>})
    \/ MakeRequestWrite(2)
    \/ MakeRequestWaitSignalled(2)
    \/ MakeRequestWaitTimeout(2)
    \/ MakeRequestClear(2)
    \/ MakeRequestUnflag(2)
    \/ MakeRequestException(2)
    \/ MakeRequestFetch(2)
    \/ MakeRequestRaise(2)
    \/ MakeRequestNoException(2)
    \/ MakeRequestReturn(2)
    \/ HandleLineReply
    \/ HandleLineException
    \/ HandleLineResponse
    \/ HandleLineSet
    \/ (_listeners = << >> /\ HandleLineEvent)
    \/ HandleLineEventRequesting
    \/ ListenerReturns
    \/ ListenerRequestRaises
    \/ HandleLineUnexpected
    \/ (_listeners = << >> /\ add_event_listener("volume", "Request"))
    \/ \E line \in RequestingLines : DeviceSend(line)

SpecRequesting == Init /\ [][NextRequesting]_vars

\* a device opened without a part number
InitAuto ==
    /\ InitSession
    /\ arg \in {Some([serial_uri |-> device, part_number |-> None]) : device \in PartNumbers}
    /\ protocol = "AutoExtronProtocol"
    /\ hpc = "start"
    /\ rx = << >>
    /\ buffer = << >>
    /\ made = << >>
    /\ dut_read = 0
    /\ res = None
    /\ NoClient

\* the handshake, the device answering it and sending a notification line
\* after its answer, and the reader thread serving the installed session
NextHandover ==
    \/ HandshakeWrite
    \/ \E data \in SerialRead : HandshakeRead(data)
    \/ DeviceEmitByte
    \/ DeviceEmitLine
    \/ ReaderDeliverLine
    \/ HandleLineEvent
    \/ HandleLineUnexpected

SpecHandover == InitAuto /\ [][NextHandover]_vars

\* the handshake with a device that never ends its answer, on a port that
\* may be closed at any time. The reader thread that runs connection_made
\* keeps running, so each step of the handshake is taken when it stays
\* possible; nothing obliges the port to close or the device to send
NextUnterminated ==
    \/ HandshakeWrite
    \/ \E data \in SerialRead : HandshakeRead(data)
    \/ HandshakeReadTimeout
    \/ HandshakePortClosed
    \/ \E data \in UnterminatedWrites : dut_write(data)

SpecUnterminated ==
    /\ InitAuto
    /\ [][NextUnterminated]_vars
    /\ WF_vars(HandshakeWrite)
    /\ WF_vars(\E data \in SerialRead : HandshakeRead(data))
    /\ WF_vars(HandshakeReadTimeout)

\* ------------------------------------------------------------------------
\* Claims
\* ------------------------------------------------------------------------
\* the completed calls of the single caller
Calls == done[1]

\* C1: with one caller and a device that answers each command with one
\* line in time and sends nothing else, the k-th make_request gets the
\* k-th line the device sent: it returns that line, or, when the line
\* starts with E, raises the error built from that line; never an earlier
\* or a later line.
C1_SequentialCorrelation ==
    \A k \in 1..Len(Calls) :
        /\ k <= Len(sent)
        /\ IF sent[k][1] = "E"
           THEN /\ Calls[k].kind = "raise"
                /\ Calls[k].exc = Some(exception_from_error_code(sent[k]))
           ELSE /\ Calls[k].kind = "return"
                /\ Calls[k].val = Some(sent[k])

\* two consecutive calls have returned two different lines, each its own
C1_Witness ==
    /\ Len(Calls) = 2
    /\ sent = << Vol40, Vol7 >>
    /\ Calls[1].kind = "return" /\ Calls[1].val = Some(Vol40)
    /\ Calls[2].kind = "return" /\ Calls[2].val = Some(Vol7)

\* C4: with one caller and a device that answers each command, a reply
\* E<n> makes its call raise the error class the taxonomy registers for
\* code n, with that code (E13: InvalidParameterError, code 13); the raise
\* consumes the captured error, so that no error is left when the call has
\* ended, and a later call whose reply does not start with E returns that
\* reply.
C4_ErrorReplyRaisedAndConsumed ==
    /\ \A k \in 1..Len(Calls) : \A i \in 1..Len(ExceptionClasses) :
          sent[k] = << "E" >> \o NatStr(ExceptionClasses[i][1]) =>
              /\ Calls[k].kind = "raise"
              /\ Calls[k].exc = Some([cls |-> ExceptionClasses[i][2],
                                      code |-> PyInt(ExceptionClasses[i][1])])
    /\ \A k \in 1..Len(Calls) :
          sent[k] = E13 =>
              Calls[k].exc = Some([cls |-> "InvalidParameterError", code |-> PyInt(13)])
    /\ pc[1] = "idle" => _response_exception = None
    /\ \A k \in 2..Len(Calls) :
          (Calls[k - 1].kind = "raise" /\ sent[k][1] # "E") =>
              /\ Calls[k].kind = "return"
              /\ Calls[k].val = Some(sent[k])

\* a call has raised for E13 and the next call has returned its own reply
C4_Witness ==
    /\ Len(Calls) = 2
    /\ sent = << E13, Vol40 >>
    /\ Calls[1].kind = "raise"
    /\ Calls[1].exc = Some([cls |-> "InvalidParameterError", code |-> PyInt(13)])
    /\ Calls[2].kind = "return" /\ Calls[2].val = Some(Vol40)
    /\ _response_exception = None

\* the lines a call saw delivered in the given phases, in delivery order
SeenIn(call, phases) ==
    LET picked == SelectSeq(call.seen, LAMBDA e : e[1] \in phases)
    IN  [i \in 1..Len(picked) |-> picked[i][2]]

\* C3: under every interleaving of line delivery with one caller, the line
\* a make_request returns is the first line delivered after that call's
\* write; a line delivered between the setting of the flag and the write,
\* and a second line delivered before the flag is reset, are never what
\* the call returns.
C3_ReturnsFirstLineAfterWrite ==
    \A k \in 1..Len(Calls) :
        LET after == SeenIn(Calls[k], {"waiting", "after_wait"}) IN
        (Calls[k].kind = "return" /\ Calls[k].val # None) =>
            /\ after # << >>
            /\ Calls[k].val = Some(after[1])

\* C5: a make_request during whose wait no line is delivered returns None,
\* whatever the earlier calls of the session returned or raised. Stated for
\* the calls during which no line was delivered at all, after earlier calls
\* that each ended on a reply and not on a timeout.
C5_SilentCallReturnsNone ==
    \A k \in 1..Len(Calls) :
        (/\ Calls[k].seen = << >>
         /\ \A j \in 1..(k - 1) : ~Calls[j].timed_out) =>
            /\ Calls[k].kind = "return"
            /\ Calls[k].val = None

\* C6: the completion signal is clear each time a make_request starts
\* waiting, so that no call ends on a reply or error captured for an
\* earlier call. Nothing clears the signal between the entry of
\* make_request and its wait, so the signal has to be clear already when
\* make_request is entered.
C6_SignalClearOnEntry ==
    [][(pc[1] = "idle" /\ pc'[1] = "write") => ~_line_handler_event]_vars

\* C7: at most one request is in flight at any instant: two callers are
\* never both past their write and waiting for a reply.
C7_AtMostOneInFlight ==
    ~(pc[1] = "wait" /\ pc[2] = "wait")

\* the positions of the log entries of the line delivered as number seq
EntriesOf(seq) == {i \in 1..Len(log) : log[i].seq = seq}

\* C2: a line passed to handle_line while a request is in flight is
\* captured as the reply and the caller is signalled, whether or not the
\* line matches a notification pattern, and no listener is invoked for it.
C2_InFlightLineIsReply ==
    /\ [](\A k \in 1..Len(delivered) :
             delivered[k].waiting => EntriesOf(k) = {})
    /\ [](rpc \in {"exception", "response", "set"} =>
             /\ delivered[Len(delivered)].waiting
             /\ rline = Some(delivered[Len(delivered)].line))
    /\ [][(rpc = "set" /\ rpc' = "idle") =>
             (_response' = rline /\ _line_handler_event')]_vars

\* a volume notification was dispatched to the registered listener, and
\* the same line, delivered later while a request was in flight, was
\* captured as the reply and signalled without another invocation
C2_Witness ==
    /\ Len(delivered) = 2
    /\ delivered[1].line = Vol40 /\ ~delivered[1].waiting
    /\ EntriesOf(1) # {}
    /\ delivered[2].line = Vol40 /\ delivered[2].waiting
    /\ EntriesOf(2) = {}
    /\ rpc = "idle"
    /\ _response = Some(Vol40)
    /\ _line_handler_event

\* the first descriptor, in the session's order, whose notification
\* pattern matches the line; 0 when none does
FirstMatching(line) ==
    LET hits == {i \in 1..Len(_event_members) :
                    ~IsNone(ReMatch(_event_members[i][2].re, line))}
    IN  IF hits = {} THEN 0
        ELSE CHOOSE i \in hits : \A j \in hits : i <= j

\* a step in which handle_line dispatches a line, delivered while no
\* request is in flight, that matches a descriptor, without raising
Dispatches ==
    /\ Len(delivered') = Len(delivered) + 1
    /\ ~delivered'[Len(delivered')].waiting
    /\ delivered'[Len(delivered')].raised = ""
    /\ FirstMatching(delivered'[Len(delivered')].line) # 0

\* the listener invocations such a step adds to the log
NewEntries == SubSeq(log', Len(log) + 1, Len(log'))

\* the registrations, by position, whose name is "*" or the name of the
\* descriptor matching the dispatched line
SelectedRegs ==
    LET name == _event_members[FirstMatching(Head(wire))][1]
    IN  {j \in 1..Len(_listeners) : _listeners[j][1] = "*" \/ _listeners[j][1] = name}

\* whether the callback of registration j returns true for the event of
\* the dispatched line
ReturnsTrue(j) ==
    ReturnedTruthy(ListenerReturn(_listeners[j][2],
                                  Val(_handle_device_event(Head(wire), << >>).ev)))

\* C8: for a line that matches a descriptor while no request is in flight,
\* the listeners invoked are exactly the registrations whose name is "*" or
\* the descriptor's name, once each, in registration order, up to and
\* including the first that returns true; no other registration is invoked.
C8_ListenersInvoked ==
    [][Dispatches =>
          LET stops == {j \in SelectedRegs : ReturnsTrue(j)}
              expected == {j \in SelectedRegs : \A s \in stops : j <= s}
          IN  /\ Len(NewEntries) = Cardinality(expected)
              /\ {NewEntries[i].reg : i \in 1..Len(NewEntries)} = expected
              /\ \A i \in 1..Len(NewEntries) : \A i2 \in 1..Len(NewEntries) :
                    i < i2 => NewEntries[i].reg < NewEntries[i2].reg
              /\ \A i \in 1..Len(NewEntries) :
                    /\ NewEntries[i].name = _listeners[NewEntries[i].reg][1]
                    /\ NewEntries[i].cb = _listeners[NewEntries[i].reg][2]
    ]_vars

\* with a volume listener registered before a wildcard listener, a
\* mic_mute line reached the wildcard listener only and a volume line
\* reached both, in registration order
C8_Witness ==
    /\ _listeners = << << "volume", "Pass" >>, << "*", "Stop" >> >>
    /\ Len(delivered) = 2
    /\ delivered[1].line = Mix0 /\ delivered[2].line = Vol7
    /\ Len(log) = 3
    /\ log[1].seq = 1 /\ log[1].reg = 2
    /\ log[2].seq = 2 /\ log[2].reg = 1
    /\ log[3].seq = 2 /\ log[3].reg = 2

\* C9: if listener A is registered before listener B, both for the event
\* of a dispatched line, and A returns true, B is not invoked for that
\* line; B is invoked for a line for which no listener before it returns
\* true.
C9_ShortCircuit ==
    [][Dispatches =>
          \A b \in SelectedRegs :
              LET invoked == \E i \in 1..Len(NewEntries) : NewEntries[i].reg = b
                  stopped_before == \E a \in SelectedRegs : a < b /\ ReturnsTrue(a)
              IN  invoked <=> ~stopped_before
    ]_vars

\* A (StopAt40, registered first) and B were both invoked for Vol7; for
\* the next line, Vol40, A returned true and B was not invoked
C9_Witness ==
    /\ _listeners = << << "*", "StopAt40" >>, << "volume", "Pass" >> >>
    /\ Len(delivered) = 2
    /\ delivered[1].line = Vol7 /\ delivered[2].line = Vol40
    /\ Len(log) = 3
    /\ log[1].seq = 1 /\ log[1].reg = 1 /\ ~log[1].stopped
    /\ log[2].seq = 1 /\ log[2].reg = 2
    /\ log[3].seq = 2 /\ log[3].reg = 1 /\ log[3].stopped

\* C10: a line matching the pattern of a scalar (typed, not indexed)
\* descriptor, delivered while no request is in flight, reaches the
\* listeners as a ValueChangeEvent whose name is the descriptor's, whose
\* source is the session and whose value is the converter's to_api of the
\* captured group; lines are delivered in the order the device sent them,
\* and the invocations follow that order, each with the value of its line.
C10_ScalarValueEvent ==
    /\ \A k \in 1..Len(delivered) : delivered[k].line = sent[k]
    /\ \A i \in 1..Len(log) : \A i2 \in 1..Len(log) :
          i < i2 => log[i].seq <= log[i2].seq
    /\ \A i \in 1..Len(log) :
          LET d == delivered[log[i].seq]
              m == FirstMatching(d.line)
              prop == _event_members[m][2]
          IN  (~d.waiting /\ m # 0 /\ ~IsNone(prop.type_) /\ ~prop.indexed) =>
                 log[i].ev =
                    [cls |-> "ValueChangeEvent",
                     name |-> Some(_event_members[m][1]),
                     source |-> Some("self"),
                     value |-> Some(ToApi(Val(prop.type_),
                                          Val(ReMatch(prop.re, d.line))[1]).val),
                     index |-> None]

\* a volume listener received Vol40 and then Vol7, as value 40 and then
\* value 7
C10_Witness ==
    /\ Len(delivered) = 2
    /\ delivered[1].line = Vol40 /\ delivered[2].line = Vol7
    /\ Len(log) = 2
    /\ log[1].seq = 1 /\ log[1].name = "volume"
    /\ log[1].ev = [cls |-> "ValueChangeEvent", name |-> Some("volume"),
                    source |-> Some("self"), value |-> Some(PyInt(40)),
                    index |-> None]
    /\ log[2].seq = 2
    /\ log[2].ev.value = Some(PyInt(7))

\* C11: delivering a line while no request is in flight, whether it is
\* dispatched as an event or is unrecognized, is handled in that one step
\* and leaves the in-flight flag, the captured response, the captured
\* error and the completion signal as they were.
C11_IdleLineLeavesRequestState ==
    [][(/\ Len(delivered') = Len(delivered) + 1
        /\ ~delivered'[Len(delivered')].waiting) =>
           /\ UNCHANGED << _waiting_for_response, _response,
                           _response_exception, _line_handler_event >>
           /\ rpc' = rpc
    ]_vars

\* a volume line was dispatched to the listener while no request was in
\* flight, and the make_request issued afterwards got its own reply, E13,
\* and raised for it
C11_Witness ==
    /\ Len(delivered) = 2
    /\ delivered[1].line = Vol40 /\ ~delivered[1].waiting
    /\ EntriesOf(1) # {}
    /\ delivered[2].line = E13 /\ delivered[2].waiting
    /\ Len(Calls) = 1
    /\ Calls[1].seen = << << "waiting", E13 >> >>
    /\ Calls[1].kind = "raise"
    /\ Calls[1].exc = Some([cls |-> "InvalidParameterError", code |-> PyInt(13)])

\* C12: a line matching the pattern of a descriptor declared without a
\* value type and without an index domain (reconfig of the DVS 304),
\* delivered while no request is in flight, is dispatched without raising
\* as one bare Event: no value, no index, the descriptor's name as name and
\* the session as source; each selected listener receives it once.
C12_BareEvent ==
    /\ \A k \in 1..Len(delivered) :
          LET m == FirstMatching(delivered[k].line) IN
          (/\ ~delivered[k].waiting
           /\ m # 0
           /\ IsNone(_event_members[m][2].type_)
           /\ ~_event_members[m][2].indexed) =>
              /\ delivered[k].raised = ""
              /\ \A i \in EntriesOf(k) :
                    log[i].ev = [cls |-> "Event",
                                 name |-> Some(_event_members[m][1]),
                                 source |-> Some("self"),
                                 value |-> None,
                                 index |-> None]
              /\ \A i \in EntriesOf(k) : \A i2 \in EntriesOf(k) :
                    log[i].reg = log[i2].reg => i = i2
    /\ \A k \in 1..Len(delivered) :
          delivered[k].line = Reconfig =>
              LET m == FirstMatching(Reconfig) IN
              /\ m # 0
              /\ _event_members[m][1] = "reconfig"
              /\ IsNone(_event_members[m][2].type_)

\* a Reconfig line reached a listener registered for reconfig as a bare
\* event named reconfig
C12_Witness ==
    /\ protocol = "ExtronDVS304Protocol"
    /\ Len(delivered) >= 1
    /\ delivered[1].line = Reconfig
    /\ \E i \in EntriesOf(1) :
          /\ log[i].name = "reconfig"
          /\ log[i].ev.cls = "Event"
          /\ log[i].ev.name = Some("reconfig")
          /\ log[i].ev.value = None

\* C13: a notification line of an indexed descriptor with a generated
\* matcher, whose pattern captures (i, v) in that order, reaches the
\* listeners as an IndexValueChangeEvent with index = int(i) and
\* value = to_api(v).
C13_IndexedEvent ==
    \A n \in 1..Len(log) :
        LET d == delivered[log[n].seq]
            m == FirstMatching(d.line)
            prop == _event_members[m][2]
            groups == Val(ReMatch(prop.re, d.line))
        IN  (~d.waiting /\ m # 0 /\ ~IsNone(prop.type_) /\ prop.indexed) =>
               /\ log[n].ev.cls = "IndexValueChangeEvent"
               /\ log[n].ev.index = Some(PyInt(IntOf(Val(groups[1]))))
               /\ log[n].ev.value = Some(ToApi(Val(prop.type_), groups[2]).val)

\* C14: to_api(to_raw(x)) = x for every x in the declared domain of every
\* value converter: the int converter over the non-negative integers, the
\* bool converter over False and True, every enumerated-table converter
\* over the values of its table.
C14_ConverterRoundTrip ==
    ~IsNone(res) => Val(res) = Yield(Val(arg).x)

\* the commands make_request has written so far
RequestWrites ==
    Len(Calls) + (IF pc[1] \in {"wait", "clear", "unflag", "check", "fetch", "consume", "return"} THEN 1 ELSE 0)

\* C15: a device opened without a part number: the handshake writes "N"
\* once and without terminator, takes the bytes before the first terminator
\* as the part number, installs one resolved session and calls its
\* connection_made once; the handshake runs once, and a later part_number
\* request on the resolved session returns the same part number.
C15_AutoDetectHandshake ==
    /\ hpc = "start" => (written = << >> /\ made = << >>)
    /\ hpc = "read" =>
          /\ written = << << "N" >> >>
          /\ made = << "AutoExtronProtocol" >>
          /\ protocol = "AutoExtronProtocol"
    /\ hpc = "done" =>
          /\ Head(written) = << "N" >>
          /\ Len(written) = 1 + RequestWrites
          /\ res = Some(Val(arg).serial_uri)
          /\ protocol # "AutoExtronProtocol"
          /\ made = << "AutoExtronProtocol", protocol >>
          /\ \A k \in 1..Len(Calls) :
                /\ Calls[k].req = << "N" >>
                /\ Calls[k].kind = "return"
                /\ Calls[k].val = res

\* an MPS 112 opened without a part number has been detected and has
\* answered the part_number request of its session with the same part number
C15_Witness ==
    /\ hpc = "done"
    /\ Val(arg).part_number = None
    /\ Val(arg).serial_uri = EXTRON_MPS_112
    /\ protocol = "ExtronMPS112Protocol"
    /\ made = << "AutoExtronProtocol", "ExtronMPS112Protocol" >>
    /\ Len(Calls) = 1
    /\ Calls[1].val = Some(EXTRON_MPS_112)

\* the part number a session class was resolved from: the one the caller
\* gave, or the one the handshake decoded
ResolvedFrom == IF IsNone(Val(arg).part_number) THEN Val(res) ELSE Val(Val(arg).part_number)

\* C16: part-number resolution is total: the eight DVS 304 part numbers
\* resolve to the DVS 304 session class, the two MPS 112 part numbers to
\* the MPS 112 session class and every other string to the generic base
\* class, whether the part number came from the handshake or from the
\* caller.
C16_ResolutionTotal ==
    hpc \in {"none", "done"} =>
        /\ ResolvedFrom \in {EXTRON_DVS_304, EXTRON_DVS_304_A, EXTRON_DVS_304_D,
                             EXTRON_DVS_304_AD, EXTRON_DVS_304_DVI,
                             EXTRON_DVS_304_DVI_A, EXTRON_DVS_304_DVI_D,
                             EXTRON_DVS_304_DVI_AD}
              => protocol = "ExtronDVS304Protocol"
        /\ ResolvedFrom \in {EXTRON_MPS_112, EXTRON_MPS_112CS}
              => protocol = "ExtronMPS112Protocol"
        /\ ResolvedFrom \notin {_PROTOCOL_INDEX[i][1] : i \in 1..Len(_PROTOCOL_INDEX)}
              => protocol = "ExtronProtocol"
        /\ protocol \in {"ExtronDVS304Protocol", "ExtronMPS112Protocol", "ExtronProtocol"}
        /\ made[Len(made)] = protocol

\* a device with a part number no family is registered for has been
\* detected and has the generic base session
C16_Witness ==
    /\ hpc = "done"
    /\ Val(arg).part_number = None
    /\ res = Some(UnknownPart)
    /\ protocol = "ExtronProtocol"

\* the error-line format: the letter E followed by an unsigned decimal code
ErrorFormat(line) ==
    /\ Len(line) >= 2
    /\ line[1] = "E"
    /\ \A i \in 2..Len(line) : \E d \in 1..Len(Digits) : Digits[d] = line[i]

\* the error classes a request can raise
ErrorClassNames ==
    {ExceptionClasses[i][2] : i \in 1..Len(ExceptionClasses)} \cup {"SISError"}

\* C17: error lookup is total: an error reply whose code the taxonomy table
\* lacks (E99) makes the request raise a generic SISError that carries the
\* code as received; every reply that starts with E makes its request raise
\* an error of the taxonomy or the generic one, and no delivery of a reply
\* fails.
C17_ErrorLookupTotal ==
    /\ \A k \in 1..Len(Calls) :
          (/\ ErrorFormat(sent[k])
           /\ \A i \in 1..Len(ExceptionClasses) : CodeKey(i) # sent[k]) =>
              /\ Calls[k].kind = "raise"
              /\ Calls[k].exc = Some([cls |-> "SISError", code |-> PyStr(sent[k])])
    /\ \A k \in 1..Len(Calls) :
          sent[k][1] = "E" =>
              /\ Calls[k].kind = "raise"
              /\ ~IsNone(Calls[k].exc)
              /\ Val(Calls[k].exc).cls \in ErrorClassNames
    /\ \A i \in 1..Len(delivered) : delivered[i].raised = ""
    /\ (rpc = "idle" /\ pc[1] = "wait" /\ Len(delivered) = Len(written)
            /\ sent[Len(delivered)][1] = "E")
          => (~IsNone(_response_exception) /\ _line_handler_event)

\* a request answered with E99 has raised the generic error carrying E99
C17_Witness ==
    /\ Len(Calls) >= 1
    /\ sent[1] = E99
    /\ Calls[1].kind = "raise"
    /\ Calls[1].exc = Some([cls |-> "SISError", code |-> PyStr(E99)])

\* C18: a reply is classified as a device error exactly when it has the
\* error-line format, E followed by an unsigned decimal code; any other
\* reply, Exe1 included, is returned to the caller and raises nothing.
C18_ErrorClassification ==
    \A k \in 1..Len(Calls) :
        IF ErrorFormat(sent[k])
        THEN Calls[k].kind = "raise"
        ELSE Calls[k].kind = "return" /\ Calls[k].val = Some(sent[k])

\* C19: a declaration that supplies both a template and a custom function
\* for the same slot (get_cmd with fget, set_cmd with fset, set_cmd_response
\* with fmatch) is rejected with an error when the descriptor is
\* constructed, scalar or indexed.
C19_BothGivenRejected ==
    ~IsNone(res) =>
        LET d == Val(arg) IN
        (\/ (~IsNone(d.get_cmd) /\ ~IsNone(d.fget))
         \/ (~IsNone(d.set_cmd) /\ ~IsNone(d.fset))
         \/ (Bound(d.set_cmd_response) /\ ~IsNone(d.fmatch)))
            => Val(res).exc # ""

\* C20: outside a documentation build, a descriptor declared with no value
\* type that the factory returns has no getter, no setter and a matcher,
\* and a declaration with no value type that supplies a get or set
\* (template or custom function), or neither a notification pattern nor a
\* custom matcher, is rejected at construction.
C20_BareEventOnly ==
    (~IsNone(res) /\ IsNone(Val(arg).type_) /\ ~Val(arg).sphinx_build) =>
        LET d == Val(arg) IN
        /\ Val(res).exc = "" =>
              /\ IsNone(Val(res).val.fget)
              /\ IsNone(Val(res).val.fset)
              /\ ~IsNone(Val(res).val.fmatch)
        /\ (\/ ~IsNone(d.get_cmd) \/ ~IsNone(d.set_cmd)
            \/ ~IsNone(d.fget) \/ ~IsNone(d.fset)
            \/ (IsNone(d.set_cmd_response) /\ IsNone(d.fmatch)))
              => Val(res).exc # ""


\* the number of completed accesses that passed a request to make_request
Requested(seq) == Cardinality({k \in 1..Len(seq) : ~IsNone(seq[k].request)})

\* C21: a scalar set passes make_request exactly one request, the set
\* template with its field replaced by to_raw of the value; a scalar get
\* passes exactly one request, the get template, and returns to_api of the
\* reply; and a get that follows a set the device accepted returns the
\* value set.
C21_ScalarAccessors ==
    /\ Len(written) = Requested(accessed)
                      + (IF ~IsNone(access) /\ pc[1] # "write" THEN 1 ELSE 0)
    /\ \A k \in 1..Len(accessed) :
          /\ accessed[k].access.fn = "fset" /\ ~IsNone(accessed[k].request)
             => accessed[k].request =
                  Some(Format(EventPropertyCommands(accessed[k].access.name).set_cmd,
                              ToRaw(EventPropertyCommands(accessed[k].access.name).type_,
                                    Val(accessed[k].access.value)).val, << >>))
          /\ accessed[k].access.fn = "fget"
             => /\ accessed[k].request =
                     Some(EventPropertyCommands(accessed[k].access.name).get_cmd)
                /\ \/ accessed[k].result.exc # ""
                   \/ accessed[k].result =
                        Returned(ToApi(EventPropertyCommands(accessed[k].access.name).type_,
                                       Some(sent[Requested(SubSeq(accessed, 1, k))])))
          /\ (/\ k > 1
              /\ accessed[k].access.fn = "fget"
              /\ accessed[k - 1].access.fn = "fset"
              /\ accessed[k - 1].access.name = accessed[k].access.name
              /\ accessed[k - 1].result = Yield(None))
             => accessed[k].result = Yield(accessed[k - 1].access.value)


\* the last access before the k-th that set element i and was accepted, or
\* 0 when there is none
LastSetItem(k, i) ==
    IF \E m \in 1..(k - 1) : /\ accessed[m].access.fn = "__setitem__"
                             /\ accessed[m].access.index = i
                             /\ accessed[m].result = Yield(None)
    THEN CHOOSE m \in 1..(k - 1) :
            /\ accessed[m].access.fn = "__setitem__"
            /\ accessed[m].access.index = i
            /\ accessed[m].result = Yield(None)
            /\ \A n \in (m + 1)..(k - 1) :
                  ~(/\ accessed[n].access.fn = "__setitem__"
                    /\ accessed[n].access.index = i
                    /\ accessed[n].result = Yield(None))
    ELSE 0

\* C22: setting element i of an indexed property passes make_request one
\* request, the set template with the index and to_raw of the value filled
\* in; reading element i passes one request, the get template with the
\* index filled in, and returns to_api of the reply; and with a device
\* that stores a value per index a read of element i returns the value last
\* set to element i, whatever was set to the other elements.
C22_IndexedAccessors ==
    /\ Len(written) = Requested(accessed)
                      + (IF ~IsNone(access) /\ pc[1] # "write" THEN 1 ELSE 0)
    /\ \A k \in 1..Len(accessed) :
          /\ accessed[k].access.fn = "__setitem__" /\ ~IsNone(accessed[k].request)
             => accessed[k].request =
                  Some(Format(EventPropertyCommands(accessed[k].access.name).set_cmd,
                              ToRaw(EventPropertyCommands(accessed[k].access.name).type_,
                                    Val(accessed[k].access.value)).val,
                              FormatD(accessed[k].access.index)))
          /\ accessed[k].access.fn = "__getitem__" /\ ~IsNone(accessed[k].request)
             => /\ accessed[k].request =
                     Some(Format(EventPropertyCommands(accessed[k].access.name).get_cmd,
                                 << >>, FormatD(accessed[k].access.index)))
                /\ accessed[k].result =
                     Returned(ToApi(EventPropertyCommands(accessed[k].access.name).type_,
                                    Some(sent[Requested(SubSeq(accessed, 1, k))])))
                /\ accessed[k].result =
                     IF LastSetItem(k, accessed[k].access.index) = 0
                     THEN Returned(ToApi(_INPUT_VIDEO_FORMAT,
                              Some(FormatD(SimulatedDVS304_reset.input_format[
                                               accessed[k].access.index]))))
                     ELSE Yield(accessed[LastSetItem(k, accessed[k].access.index)].access.value)

\* element 2 was set to CVBS, then read as CVBS, and element 1 read
\* afterwards is CVBS as before
C22_Witness ==
    /\ Len(accessed) = 3
    /\ accessed[1].access = Access("__setitem__", "video_input_format", 2,
                                   Some(PyEnum("InputVideoFormat.CVBS")))
    /\ accessed[1].request = Some(<< "2", "*", "1", "\\" >>)
    /\ accessed[1].result = Yield(None)
    /\ accessed[2].access = Access("__getitem__", "video_input_format", 2, None)
    /\ accessed[2].request = Some(<< "2", "\\" >>)
    /\ accessed[2].result = Yield(Some(PyEnum("InputVideoFormat.CVBS")))
    /\ accessed[3].access = Access("__getitem__", "video_input_format", 1, None)
    /\ accessed[3].result = Yield(Some(PyEnum("InputVideoFormat.CVBS")))


\* C23: the transport has been written once for every make_request call
\* that has passed its write, in the order of the calls, each write being
\* the bytes of the command of the call and nothing more; this holds for
\* calls that got a reply, that raised the error of an error reply and
\* that timed out.
C23_WrittenOnce ==
    /\ Len(written) = Len(Calls) + (IF pc[1] \in {"idle", "write"} THEN 0 ELSE 1)
    /\ \A k \in 1..Len(Calls) : written[k] = Calls[k].req
    /\ pc[1] \notin {"idle", "write"} => written[Len(written)] = cur[1].req

\* two calls have ended, one raising the error of the reply E13 and one
\* after its wait timed out, and V was written twice
C23_Witness ==
    /\ Len(Calls) = 2
    /\ \E k \in 1..2 :
          /\ Calls[k].kind = "raise"
          /\ Calls[k].exc = Some([cls |-> "InvalidParameterError", code |-> PyInt(13)])
    /\ \E k \in 1..2 : Calls[k].timed_out
    /\ written = << << "V" >>, << "V" >> >>


\* a code below 100 as two decimal digits
TwoDigits(n) == << Digits[(n \div 10) + 1], Digits[(n % 10) + 1] >>

\* the codes of a (resolution, rate) pair that has both, as numbers
CodesOf(pair) ==
    << NatOf(EnumToRaw(_OUTPUT_RESOLUTION, pair[2]).val),
       NatOf(OutputRefreshRaw(pair[2], pair[3]).val) >>

\* whether the resolution and the rate of the pair both have a wire code
HasCodes(pair) ==
    /\ EnumToRaw(_OUTPUT_RESOLUTION, pair[2]).exc = ""
    /\ OutputRefreshRaw(pair[2], pair[3]).exc = ""

\* C24: a step that ends a set of output_rate: for a pair whose resolution
\* or rate has no wire code the set raises InvalidParameterError, has
\* passed no request to make_request, and the step leaves the transport,
\* the in-flight flag (false) and the caller's position as they are; for a
\* pair with codes the request is the two codes, two digits each, joined by
\* an asterisk and followed by "=", and the set raises
\* InvalidParameterError exactly when the device answered E13.
C24_OutputRateSet ==
    [][(/\ Len(accessed') = Len(accessed) + 1
        /\ accessed'[Len(accessed')].access.fn = "fset"
        /\ accessed'[Len(accessed')].access.name = "output_rate")
       => IF ~HasCodes(Val(accessed'[Len(accessed')].access.value))
          THEN /\ accessed'[Len(accessed')].request = None
               /\ accessed'[Len(accessed')].result = Raise("InvalidParameterError")
               /\ Len(written) = Requested(accessed)
               /\ ~_waiting_for_response
               /\ UNCHANGED << written, _waiting_for_response, pc >>
          ELSE /\ accessed'[Len(accessed')].request =
                    Some(TwoDigits(CodesOf(Val(accessed'[Len(accessed')].access.value))[1])
                         \o << "*" >>
                         \o TwoDigits(CodesOf(Val(accessed'[Len(accessed')].access.value))[2])
                         \o << "=" >>)
               /\ written[Len(written)] = Val(accessed'[Len(accessed')].request)
               /\ Len(written) = Requested(accessed') 
               /\ IF sent[Len(sent)] = E13
                  THEN accessed'[Len(accessed')].result = Raise("InvalidParameterError")
                  ELSE accessed'[Len(accessed')].result = Yield(None)]_vars

\* output_rate was set to a pair without a rate code, to a pair the device
\* accepts and to a pair with codes the device refuses
C24_Witness ==
    /\ Len(accessed) = 3
    /\ accessed[1].access.value =
          Some(PyTuple(Resolution("640x480", 640, 480), PyFloat(2400)))
    /\ accessed[1].result = Raise("InvalidParameterError")
    /\ accessed[1].request = None
    /\ accessed[2].request = Some(<< "0", "1", "*", "0", "2", "=" >>)
    /\ accessed[2].result = Yield(None)
    /\ accessed[3].request = Some(<< "1", "5", "*", "0", "1", "=" >>)
    /\ accessed[3].result = Raise("InvalidParameterError")
    /\ written = << << "0", "1", "*", "0", "2", "=" >>, << "1", "5", "*", "0", "1", "=" >> >>


\* C25: for every combination of the supported list of the device, with w
\* its wire form and p = to_api(w): to_api yields a pair, to_raw(p) is w
\* and to_api(to_raw(p)) is p; code 3 at resolution 20 is 1440x900 at 75 Hz
\* and code 3 at resolution 19 is 1080p at 24 Hz.
C25_OutputRateRoundTrip ==
    (~IsNone(res) /\ Val(arg) \in _VALID_OUTPUT_COMBINATIONS)
    => /\ Val(res).api.exc = ""
       /\ Val(res).raw = Yield(<< Digits[(Val(arg)[1] \div 10) + 1],
                                  Digits[(Val(arg)[1] % 10) + 1], "*", "0",
                                  Digits[Val(arg)[2] + 1] >>)
       /\ Val(res).back = Val(res).api
       /\ Val(arg) = << 20, 3 >>
          => Val(res).api.val = PyTuple(Resolution("1440x900", 1440, 900), PyFloat(7500))
       /\ Val(arg) = << 19, 3 >>
          => Val(res).api.val = PyTuple(Resolution("1080p", 1920, 1080), PyFloat(2400))

\* the combination (20, 3) has been converted: 1440x900 at 75 Hz, and back
\* to 20*03
C25_Witness ==
    /\ arg = Some(<< 20, 3 >>)
    /\ ~IsNone(res)
    /\ Val(res).api = Yield(PyTuple(Resolution("1440x900", 1440, 900), PyFloat(7500)))
    /\ Val(res).raw = Yield(<< "2", "0", "*", "0", "3" >>)


\* the single-switcher input number of a device in the given state: the
\* selected input in single-switcher mode, and in separate-switcher mode
\* the program audio input counted over the groups of four (0 when off)
CurrentSingle(state) ==
    IF state.mode = 1 THEN state.single_input
    ELSE IF state.audio_input = 0 THEN 0
    ELSE (state.audio_group - 1) * 4 + state.audio_input

\* the input of group g of a device in the given state
CurrentInput(state, g) ==
    IF state.mode = 2 THEN state.separate_input[g]
    ELSE IF state.single_input > 0 /\ (state.single_input - 1) \div 4 = g - 1
    THEN ((state.single_input - 1) % 4) + 1
    ELSE 0

\* C26: every step leaves the values the client has read as they are, in
\* particular the int value of a _SwitchInputProperty it read before the
\* input was set; a read of input passes the status request I to
\* make_request and gives the single-switcher input number of the device
\* at that moment; and every read of an element through the value passes a
\* status request of its own and gives the input the device has for that
\* group at that moment.
C26_InputValueFixedItemsFresh ==
    [][/\ \A k \in 1..Len(accessed) : accessed'[k] = accessed[k]
       /\ (/\ Len(accessed') = Len(accessed) + 1
           /\ accessed'[Len(accessed')].access.fn \in {"fget", "__getitem__"})
          => /\ accessed'[Len(accessed')].request = Some(<< "I" >>)
             /\ Len(written) = Requested(accessed')
             /\ written[Len(written)] = << "I" >>
             /\ accessed'[Len(accessed')].result =
                  IF accessed'[Len(accessed')].access.fn = "fget"
                  THEN Yield(Some(PyInt(CurrentSingle(Val(dev)))))
                  ELSE Yield(Some(PyInt(CurrentInput(Val(dev),
                                            accessed'[Len(accessed')].access.index))))]_vars

\* in single-switcher mode the client read input as 0, set input to 5 and
\* then read element 2 through the value it holds: the element is 1, the
\* value is still 0, and I was written for both reads
C26_Witness ==
    /\ Len(accessed) = 3
    /\ accessed[1].access.fn = "fget"
    /\ accessed[1].result = Yield(Some(PyInt(0)))
    /\ accessed[2].access = Access("fset", "input", 0, Some(PyInt(5)))
    /\ accessed[2].result = Yield(None)
    /\ accessed[3].access = Access("__getitem__", "input", 2, None)
    /\ accessed[3].result = Yield(Some(PyInt(1)))
    /\ written = << << "I" >>, << "5", "!" >>, << "I" >> >>
    /\ CurrentSingle(Val(dev)) = 5


\* C27: _separate_to_single_input(group, index) is 0 when index is 0 and
\* (group - 1) * 4 + index otherwise; no two of the pairs of a group 1..3
\* and an index 1..4 have the same result, and the results are the numbers
\* 1..12.
C27_SeparateToSingle ==
    /\ ~IsNone(res)
       => Val(res) = PyInt(IF Val(arg)[2] = 0 THEN 0
                           ELSE (Val(arg)[1] - 1) * 4 + Val(arg)[2])
    /\ \A g1 \in 1..3, g2 \in 1..3, i1 \in 1..4, i2 \in 1..4 :
          _separate_to_single_input(g1, i1) = _separate_to_single_input(g2, i2)
          => g1 = g2 /\ i1 = i2
    /\ {_separate_to_single_input(g, i) : g \in 1..3, i \in 1..4} = 1..12

\* group 3 and index 4 have been flattened to 12
C27_Witness ==
    /\ arg = Some(<< 3, 4 >>)
    /\ res = Some(PyInt(12))


\* C28: a step that ends a make_request call, by return or by raise, after
\* a reply, an error reply or a timeout, leaves the in-flight flag false;
\* and a line that handle_line takes while the caller is outside
\* make_request finds the flag false and leaves the stored response, the
\* stored exception and the event as they are.
C28_FlagFalseAfterCall ==
    [][/\ Len(Calls') = Len(Calls) + 1 => ~_waiting_for_response'
       /\ (pc[1] = "idle" /\ Len(delivered') = Len(delivered) + 1)
          => /\ ~delivered'[Len(delivered')].waiting
             /\ UNCHANGED << _response, _response_exception, _line_handler_event >>]_vars

\* a call timed out, the next raised the error of its reply E13, and the
\* line Vol40 delivered after it found the flag false
C28_Witness ==
    /\ Len(Calls) = 2
    /\ Calls[1].timed_out /\ Calls[1].kind = "return"
    /\ Calls[2].kind = "raise"
    /\ written = << << "V" >>, << "V" >> >>
    /\ Len(delivered) = 2
    /\ delivered[1].line = E13 /\ delivered[1].waiting
    /\ delivered[2].line = Vol40 /\ ~delivered[2].waiting
    /\ ~_waiting_for_response

\* the names of the descriptors whose notification pattern matches the line
MatchingNames(line) ==
    {_event_members[i][1] : i \in {j \in 1..Len(_event_members) :
                                     ~IsNone(ReMatch(_event_members[j][2].re, line))}}

\* C29: a line dispatched while no request is in flight produces one event,
\* named after the first descriptor, in member order, whose pattern matches
\* it: every listener invoked is registered under "*" or that name, is
\* invoked once and with that one event, and a listener registered under
\* the name of another descriptor matching the line is not invoked.
C29_FirstDescriptorOnly ==
    [][Dispatches =>
          LET line == delivered'[Len(delivered')].line
              first == _event_members[FirstMatching(line)][1]
          IN  /\ \A i \in 1..Len(NewEntries) :
                    /\ NewEntries[i].ev.name = Some(first)
                    /\ NewEntries[i].ev.source = Some("self")
                    /\ NewEntries[i].name \in {"*", first}
                    /\ NewEntries[i].name \notin (MatchingNames(line) \ {first})
              /\ \A i \in 1..Len(NewEntries) : \A i2 \in 1..Len(NewEntries) :
                    /\ NewEntries[i].ev = NewEntries[i2].ev
                    /\ i # i2 => NewEntries[i].reg # NewEntries[i2].reg
    ]_vars

\* Vol40 matches gain and volume; with a listener registered under volume
\* and then one under gain, the line reached the gain listener only, with
\* the event named gain
C29_Witness ==
    /\ MatchingNames(Vol40) = {"gain", "volume"}
    /\ _listeners = << << "volume", "Pass" >>, << "gain", "Pass" >> >>
    /\ Len(delivered) = 1
    /\ delivered[1].line = Vol40 /\ ~delivered[1].waiting
    /\ Len(log) = 1
    /\ log[1].reg = 2 /\ log[1].name = "gain"
    /\ log[1].ev.name = Some("gain")
    /\ log[1].ev.value = Some(PyInt(40))

\* a step in which handle_line takes a line, delivered while no request is
\* in flight, that matches no descriptor's pattern
Unrecognized ==
    /\ Len(delivered') = Len(delivered) + 1
    /\ ~delivered'[Len(delivered')].waiting
    /\ FirstMatching(delivered'[Len(delivered')].line) = 0

\* C30: a line delivered while no request is in flight that matches no
\* descriptor's pattern invokes no listener, raises no exception and
\* changes nothing of the session, the reader staying ready for the next
\* line; a line dispatched after such a line reaches the listeners
\* registered under "*" or its descriptor's name, up to the first that
\* returns true.
C30_UnrecognizedDropped ==
    [][/\ Unrecognized =>
            /\ log' = log
            /\ delivered'[Len(delivered')].raised = ""
            /\ rpc = "idle" /\ rpc' = "idle"
            /\ wire' = Tail(wire)
            /\ UNCHANGED << session, _listeners, written, pc, done >>
       /\ (Dispatches /\ \E k \in 1..Len(delivered) :
                            /\ ~delivered[k].waiting
                            /\ FirstMatching(delivered[k].line) = 0) =>
            {NewEntries[i].reg : i \in 1..Len(NewEntries)} =
               {j \in SelectedRegs :
                   \A s \in {t \in SelectedRegs : ReturnsTrue(t)} : j <= s}
    ]_vars

\* Zpx, which no descriptor of the MPS 112 matches, was delivered to a
\* session with a volume listener and left no trace; the volume line after
\* it reached the listener
C30_Witness ==
    /\ FirstMatching(Zpx) = 0
    /\ _listeners = << << "volume", "Pass" >> >>
    /\ Len(delivered) = 2
    /\ delivered[1].line = Zpx /\ ~delivered[1].waiting /\ delivered[1].raised = ""
    /\ delivered[2].line = Vol40
    /\ Len(log) = 1
    /\ log[1].seq = 2 /\ log[1].reg = 1
    /\ log[1].ev.value = Some(PyInt(40))
    /\ rpc = "idle"
    /\ _response = None /\ ~_line_handler_event

\* the make_request call of the k-th completed access timed out and no
\* line reached the session while it was in make_request
TimedOutUnanswered(k) ==
    /\ Calls[k].timed_out
    /\ Calls[k].seen = << >>

\* C31: a generated getter, scalar or indexed, whose request timed out
\* gives its caller a null result and raises nothing.
C31_TimeoutAbsorbed ==
    \A k \in 1..Len(accessed) :
        (/\ accessed[k].access.fn \in {"fget", "__getitem__"}
         /\ TimedOutUnanswered(k))
        => /\ accessed[k].result.exc = ""
           /\ accessed[k].result.val \in {None, Some(None)}

\* the exception classes registered with the decimal code n
ClassesOfCode(n) ==
    {ExceptionClasses[i][2] : i \in {j \in 1..Len(ExceptionClasses) :
                                        ExceptionClasses[j][1] = n}}

\* C32: the error raised for an error reply depends only on the number its
\* decimal code denotes: when a class is registered with that number (E01
\* and E1 both denote 1) the error is of that class and its code attribute
\* is the number.
C32_ErrorKindByNumber ==
    ~IsNone(res) =>
        \A cls \in ClassesOfCode(NatOf(Drop(Val(arg), 1))) :
            /\ Val(res).cls = cls
            /\ Val(res).code = PyInt(NatOf(Drop(Val(arg), 1)))

\* the positions of the pair in a registry
PositionsOf(list, pair) == {j \in 1..Len(list) : list[j] = pair}

\* the registry without its element at position i
WithoutPosition(list, i) ==
    [j \in 1..(Len(list) - 1) |-> IF j < i THEN list[j] ELSE list[j + 1]]

\* C33: remove_event_listener(name, cb) removes the earliest registration
\* of the pair and leaves the others and their order as they were; removing
\* a pair that is not registered raises and changes nothing; and after an
\* add followed by a remove of the same pair the registry is what it was
\* before the add.
C33_RemoveListener ==
    /\ \A k \in 1..Len(arg) :
          arg[k].op = "remove" =>
             IF PositionsOf(arg[k].before, arg[k].pair) = {}
             THEN arg[k].exc # "" /\ arg[k].after = arg[k].before
             ELSE /\ arg[k].exc = ""
                  /\ \E i \in PositionsOf(arg[k].before, arg[k].pair) :
                        /\ \A j \in PositionsOf(arg[k].before, arg[k].pair) : i <= j
                        /\ arg[k].after = WithoutPosition(arg[k].before, i)
    /\ \A k \in 1..(Len(arg) - 1) :
          (/\ arg[k].op = "add"
           /\ arg[k + 1].op = "remove"
           /\ arg[k + 1].pair = arg[k].pair)
          => arg[k + 1].after = arg[k].before

\* a step in which an indexed access of video_input_format, declared with
\* indices=range(1, 5), at an index outside 1..4 ends
OutOfRangeAccessEnds ==
    /\ Len(accessed') = Len(accessed) + 1
    /\ accessed'[Len(accessed')].access.fn \in {"__getitem__", "__setitem__"}
    /\ accessed'[Len(accessed')].access.name = "video_input_format"
    /\ accessed'[Len(accessed')].access.index \notin 1..4

\* C34: an indexed get or set with an index outside the declared indices
\* raises IndexError without a call of make_request: nothing is written to
\* the transport and the in-flight flag, the response, the captured
\* exception, the event and the caller's position are as before.
C34_IndexErrorBeforeRequest ==
    [][OutOfRangeAccessEnds =>
          /\ accessed'[Len(accessed')].result = Raise("IndexError")
          /\ accessed'[Len(accessed')].request = None
          /\ IsNone(access) /\ IsNone(access')
          /\ ~_waiting_for_response'
          /\ UNCHANGED << session, written, sent, wire, pc, cur, done, dev >>
    ]_vars

\* element 5 was read and set, both ending with IndexError and nothing
\* written; the read of element 1 after them wrote its request and returned
\* the format of input 1
C34_Witness ==
    /\ Len(accessed) = 3
    /\ accessed[1].access = Access("__getitem__", "video_input_format", 5, None)
    /\ accessed[1].result = Raise("IndexError")
    /\ accessed[2].access = Access("__setitem__", "video_input_format", 5,
                                   Some(PyEnum("InputVideoFormat.SVIDEO")))
    /\ accessed[2].result = Raise("IndexError")
    /\ accessed[3].access = Access("__getitem__", "video_input_format", 1, None)
    /\ accessed[3].result.exc = ""
    /\ written = << << "1", "\\" >> >>
    /\ ~_waiting_for_response

\* the call ended with the exception of the transport write
WriteFailed(call) ==
    /\ call.kind = "raise"
    /\ Val(call.exc).cls = "SerialException"

\* C35: when the transport write inside make_request raises, the exception
\* reaches the caller with the in-flight flag false, and a line delivered
\* while the caller is outside make_request is not captured as a reply.
C35_WriteFailureNotInFlight ==
    [][/\ (Len(Calls') = Len(Calls) + 1 /\ WriteFailed(Calls'[Len(Calls')]))
          => ~_waiting_for_response'
       /\ (/\ pc[1] = "idle"
           /\ Len(delivered') = Len(delivered) + 1
           /\ \E k \in 1..Len(Calls) : WriteFailed(Calls[k]))
          => /\ ~delivered'[Len(delivered')].waiting
             /\ UNCHANGED << _response, _response_exception, _line_handler_event >>
    ]_vars

\* C36: handle_line returns normally for every line delivered while no
\* request is in flight, also for a line that matches a notification
\* pattern with a token outside the converter's table (Exe7), and the
\* reader goes on to deliver the following lines.
C36_DeliveryNeverRaises ==
    [][(/\ Len(delivered') = Len(delivered) + 1
        /\ ~delivered'[Len(delivered')].waiting)
       => /\ delivered'[Len(delivered')].raised = ""
          /\ rpc' = "idle"
    ]_vars

\* C37: when a listener removes a registration while a line is being
\* dispatched, every matching listener registered when the dispatch began
\* is still invoked exactly once, unless an earlier listener returned true.
C37_RegistryChangeDuringDispatch ==
    [][Dispatches =>
          \A j \in SelectedRegs :
              (\A s \in SelectedRegs : ReturnsTrue(s) => j <= s)
              => Cardinality({i \in 1..Len(NewEntries) : NewEntries[i].reg = j}) = 1
    ]_vars

\* C38: no line is delivered to the session while a listener is running,
\* and a make_request called from inside a listener completes only by
\* timeout, no line having reached the session during the call.
C38_ListenerRequestTimesOut ==
    [][/\ rpc = "listener" => Len(delivered') = Len(delivered)
       /\ Len(done'[2]) = Len(done[2]) + 1
          => /\ done'[2][Len(done'[2])].timed_out
             /\ done'[2][Len(done'[2])].seen = << >>
    ]_vars

\* C39: no byte is lost across the hand-over: once the handshake has
\* installed the session and every byte the device sent has been read and
\* handled, the notification line sent after the part number has been
\* delivered to the session, and the handshake holds no byte it read
\* after the terminator.
C39_NoByteLostAtHandOver ==
    (/\ hpc = "done"
     /\ Len(sent) = 2
     /\ rx = << >> /\ wire = << >> /\ rpc = "idle")
    => /\ \E k \in 1..Len(delivered) : delivered[k].line = Vol40
       /\ buffer = << >>

\* C40: the auto-detect handshake terminates. With the port open and a
\* device that never sends a terminated line, connection_made still ends,
\* with a session installed or by failing; and when the port closes before
\* a TERMINATOR is seen, it ends with no resolved session installed.
HandshakeEnded == hpc \in {"done", "closed", "failed"}

C40_HandshakeTerminates ==
    /\ <>HandshakeEnded
    /\ [](hpc = "closed" => /\ protocol = "AutoExtronProtocol"
                            /\ made = << "AutoExtronProtocol" >>)

====
